---- MODULE Spec2Model ----
(***************************************************************************)
(* bacchus: the task-claim and worktree lifecycle engine.                  *)
(*                                                                         *)
(* Each agent is an OS process that runs one command at a time (claim,     *)
(* next, release, abort, resolve).  A command is a sequence of blocking    *)
(* calls to the claims database, to git and to the beads tracker; the      *)
(* model takes one step per such call, so that the calls of concurrently   *)
(* running commands interleave as the calls of independent processes do.   *)
(* A call that can fail for reasons outside the engine (git, the tracker,  *)
(* the database) has a failing outcome next to its successful one.         *)
(***************************************************************************)
EXTENDS Naturals, Integers, Sequences, FiniteSets, TLC

\* ------------------------------------------------------------------ bounds

\* A run invokes at most MaxOps commands.
MaxOps == 3

\* The clock is advanced at most MaxTicks times.
MaxTicks == 1

\* ---------------------------------------------------------------- universe

Procs == {"agent-a", "agent-b"}
Beads == {"BEAD-1", "BEAD-2"}
NoBead == "-"

\* issues.priority of each bead in the tracker of the claim, release, merge
\* and stale scenarios
Priority == [b \in Beads |-> IF b = "BEAD-1" THEN "P2" ELSE "P1"]

VARIABLES
    claims,      \* the rows of table claims
    worktrees,   \* beads whose directory .bacchus/worktrees/<bead> exists
    branches,    \* beads whose branch bacchus/<bead> exists
    merged,      \* beads whose branch has been merged into main
    mergeHead,   \* the bead whose branch .git/MERGE_HEAD names, or NoBead
    unresolved,  \* whether unmerged paths remain in the index
    tracker,     \* issues.status of each bead
    deps,        \* table dependencies: <<issue, blocker>>
    now,         \* the wall clock, in milliseconds
    pc,          \* each process: the call it is about to make
    op,          \* each process: the command it runs
    bead,        \* each process: the bead its command acts on
    flag,        \* each process: force (claim) or status (release)
    head_commit, \* each process: wt.head_commit of the worktree it created
    result,      \* each process: what the command returned
    log,         \* each process: the mutating calls its command has made
    pre,         \* the state in which the command running alone was invoked
    invoked,     \* the number of commands invoked so far
    stale,       \* each process: the arguments and the lists of its stale command
    priority,    \* issues.priority of each bead
    ready,       \* each process: the list get_ready_beads returned to it
    session,     \* the contents of .bacchus/session.json
    hook,        \* each process: what its stop-hook check has read and decided
    tasks,       \* table tasks: whether the schema has it, and its rows
    existing     \* each process: the task row its SELECT returned

vars == <<claims, worktrees, branches, merged, mergeHead, unresolved, tracker,
          deps, now, pc, op, bead, flag, head_commit, result, log, pre, invoked,
          stale, priority, ready, session, hook, tasks, existing>>

git == <<worktrees, branches, merged, mergeHead, unresolved>>

\* What the claim, release, merge and stale commands neither read nor write,
\* the priorities apart, which they only read.
ext == <<priority, ready, session, hook, tasks, existing>>

\* ---------------------------------------------------------------- worktree.rs

WorktreePath(b) == <<".bacchus/worktrees", b>>
BranchName(b) == <<"bacchus", b>>

\* The commit main points at, identified by the merges it contains.
HeadCommit == merged

GitState(w, br, m, mh, u) ==
    [wts |-> w, brs |-> br, mrg |-> m, mh |-> mh, unres |-> u]

Unchanged == GitState(worktrees, branches, merged, mergeHead, unresolved)

\* Faulty variant: create_worktree without the path check, git accepting a
\* second worktree on the same path and branch.
create_worktree_Unguarded(b) ==
    {[res |-> "Ok", fault |-> FALSE,
      st |-> [Unchanged EXCEPT !.wts = @ \cup {b}, !.brs = @ \cup {b}]]}

\* The outcomes of create_worktree(bead): the path check, git worktree add -b,
\* git rev-parse HEAD in the new worktree.
create_worktree(b) ==
    IF b \in worktrees
    THEN {[res |-> "AlreadyExists", fault |-> FALSE, st |-> Unchanged]}
    ELSE IF b \in branches
    THEN {[res |-> "GitError", fault |-> FALSE, st |-> Unchanged]}
    ELSE {[res |-> "Ok", fault |-> FALSE,
           st |-> [Unchanged EXCEPT !.wts = @ \cup {b}, !.brs = @ \cup {b}]],
          [res |-> "GitError", fault |-> TRUE, st |-> Unchanged],
          [res |-> "GitError", fault |-> TRUE,
           st |-> [Unchanged EXCEPT !.wts = @ \cup {b}, !.brs = @ \cup {b}]]}

\* The outcomes of delete_branch: git branch -D, or git branch -d, which
\* refuses a branch that is not merged.
delete_branch(b, force, st) ==
    IF b \in st.brs /\ (force \/ b \in st.mrg)
    THEN {[res |-> "Ok", fault |-> FALSE, st |-> [st EXCEPT !.brs = @ \ {b}]],
          [res |-> "GitError", fault |-> TRUE, st |-> st]}
    ELSE {[res |-> "GitError", fault |-> FALSE, st |-> st]}

\* The outcomes of remove_worktree(bead, force): the path check, git worktree
\* remove [--force], then delete_branch.
remove_worktree(b, force) ==
    IF b \notin worktrees
    THEN {[res |-> "NotFound", fault |-> FALSE, st |-> Unchanged]}
    ELSE {[res |-> "GitError", fault |-> TRUE, st |-> Unchanged]}
         \cup delete_branch(b, force, [Unchanged EXCEPT !.wts = @ \ {b}])

\* Faulty variant: the merge going ahead while another merge is in progress,
\* whose MERGE_HEAD it replaces.
merge_worktree_OverMerge(b) ==
    IF b \notin branches
    THEN {[res |-> "GitError", fault |-> FALSE, st |-> Unchanged]}
    ELSE {[res |-> "Ok", fault |-> FALSE,
           st |-> [Unchanged EXCEPT !.mrg = @ \cup {b}, !.mh = NoBead, !.unres = FALSE]],
          [res |-> "Conflict", fault |-> FALSE,
           st |-> [Unchanged EXCEPT !.mh = b, !.unres = TRUE]],
          [res |-> "GitError", fault |-> TRUE, st |-> Unchanged]}

\* The outcomes of merge_worktree(bead, "main"): git checkout main, git merge.
\* git refuses both while a merge is in progress.
merge_worktree(b) ==
    IF mergeHead # NoBead \/ b \notin branches
    THEN {[res |-> "GitError", fault |-> FALSE, st |-> Unchanged]}
    ELSE {[res |-> "Ok", fault |-> FALSE,
           st |-> [Unchanged EXCEPT !.mrg = @ \cup {b}]],
          [res |-> "Conflict", fault |-> FALSE,
           st |-> [Unchanged EXCEPT !.mh = b, !.unres = TRUE]],
          [res |-> "GitError", fault |-> TRUE, st |-> Unchanged]}

is_in_merge_conflict == mergeHead # NoBead

\* What get_merge_branch can return: the branch git name-rev gives MERGE_HEAD,
\* or None when there is no MERGE_HEAD or name-rev fails.
get_merge_branch ==
    IF mergeHead = NoBead THEN {"None"} ELSE {mergeHead, "None"}

\* The outcomes of worktree::abort_merge: git merge --abort
git_merge_abort ==
    IF mergeHead = NoBead
    THEN {[res |-> "GitError", fault |-> FALSE, st |-> Unchanged]}
    ELSE {[res |-> "Ok", fault |-> FALSE,
           st |-> [Unchanged EXCEPT !.mh = NoBead, !.unres = FALSE]],
          [res |-> "GitError", fault |-> TRUE, st |-> Unchanged]}

has_unresolved_conflicts == unresolved

\* The outcomes of complete_merge: the unresolved check, git add -A,
\* git commit --no-edit
complete_merge ==
    IF has_unresolved_conflicts \/ mergeHead = NoBead
    THEN {[res |-> "GitError", fault |-> FALSE, st |-> Unchanged]}
    ELSE {[res |-> "Ok", fault |-> FALSE,
           st |-> [Unchanged EXCEPT !.mrg = @ \cup {mergeHead}, !.mh = NoBead]],
          [res |-> "GitError", fault |-> TRUE, st |-> Unchanged]}

\* ---------------------------------------------------------------- beads.rs

Statuses == {"open", "in_progress", "blocked", "closed"}

PriorityRank(b) ==
    CASE priority[b] = "P0" -> 0
      [] priority[b] = "P1" -> 1
      [] priority[b] = "P2" -> 2
      [] priority[b] = "P3" -> 3
      [] OTHER -> 4

\* WHERE status = 'open' AND NOT EXISTS (an unfinished blocker)
ReadySet ==
    {b \in Beads :
        /\ tracker[b] = "open"
        /\ ~\E d \in deps : d[1] = b /\ tracker[d[2]] \notin {"done", "closed"}}

\* The order of the bead ids as text
IdRank(b) == IF b = "BEAD-1" THEN 1 ELSE 2

\* ORDER BY CASE priority ... END, id
Before(a, b) ==
    \/ PriorityRank(a) < PriorityRank(b)
    \/ PriorityRank(a) = PriorityRank(b) /\ IdRank(a) < IdRank(b)

\* ready[0]: the head of the ordered ready list
FirstReady == CHOOSE b \in ReadySet : \A c \in ReadySet \ {b} : Before(b, c)

get_ready_beads == ReadySet

is_bead_ready(b) == b \in ReadySet

\* The outcomes of update_bead_status(bead, status)
update_bead_status(b, s) ==
    {[res |-> "Ok", fault |-> FALSE, tr |-> [tracker EXCEPT ![b] = s]],
     [res |-> "Err", fault |-> TRUE, tr |-> tracker]}

\* ---------------------------------------------------------------- claims table

ClaimExists(b) == \E r \in claims : r.bead_id = b

ClaimRow(b, agent, commit, t) ==
    [bead_id |-> b, agent_id |-> agent, worktree_path |-> WorktreePath(b),
     branch_name |-> BranchName(b), start_commit |-> commit, claimed_at |-> t]

\* Faulty variant: table claims without a key, taking a second row for a bead.
insert_claim_NoKey(row) ==
    {[res |-> "Ok", fault |-> FALSE, cl |-> claims \cup {row}],
     [res |-> "Err", fault |-> TRUE, cl |-> claims]}

\* INSERT INTO claims: bead_id is the PRIMARY KEY
insert_claim(row) ==
    IF \E r \in claims : r.bead_id = row.bead_id
    THEN {[res |-> "Err", fault |-> FALSE, cl |-> claims]}
    ELSE {[res |-> "Ok", fault |-> FALSE, cl |-> claims \cup {row}],
          [res |-> "Err", fault |-> TRUE, cl |-> claims]}

\* DELETE FROM claims WHERE bead_id = ?
delete_claim(b) ==
    {[res |-> "Ok", fault |-> FALSE, cl |-> {r \in claims : r.bead_id # b}],
     [res |-> "Err", fault |-> TRUE, cl |-> claims]}

\* ---------------------------------------------------------------- processes

NoCommit == {"-"}

\* The stale command's arguments (minutes, cleanup), the rows it listed
\* (stale_claims) and the beads it cleaned (cleaned_up); this is their value
\* while no stale command runs.
NoStale == [minutes |-> 0, cleanup |-> FALSE, stale_claims |-> <<>>, cleaned_up |-> <<>>]

\* session.json is absent.
NoSession == [mode |-> "none", bead_id |-> NoBead, max_concurrent |-> 0]

\* What a stop-hook check holds before it has read anything.
NoHook == [session |-> NoSession, ready_count |-> 0, active_count |-> 0,
           decision |-> "-", reason |-> "-"]

\* tasks.owner IS NULL
NoOwner == "NULL"

\* Table tasks has no row for the bead.
NoTask == [present |-> FALSE, owner |-> NoOwner, last_heartbeat |-> 0]

\* The SELECT of a task row returned nothing (or failed: .ok()).
NoExisting == [found |-> FALSE, owner |-> NoOwner]

\* create_subtasks names a subtask "<parent>.<n>"; one subtask per bead is
\* tried.
Subtask == [b \in Beads |-> IF b = "BEAD-1" THEN "BEAD-1.1" ELSE "BEAD-2.1"]

TaskIds == Beads \cup {Subtask[b] : b \in Beads}

\* The database as init_db leaves it: migration 3 has dropped table tasks
\* (and bead_symbols and notifications with it).
NoTasks == [table |-> FALSE, rows |-> [t \in TaskIds |-> NoTask]]

\* What a command returns: success, a structured failure (Ok with
\* success = false), or a hard error (Err, a non-zero exit).
Structured == {"closed", "not_ready", "already_claimed", "no_ready", "no_claim",
               "invalid_status", "conflict", "merge_failed", "not_in_merge",
               "wrong_bead", "unresolved"}
HardErrors == {"err_get_bead", "err_create", "err_insert", "err_tracker",
               "err_remove", "err_delete", "err_git", "err_query", "err_session",
               "err_task"}

Entry(call, arg, o) ==
    [call |-> call, arg |-> arg,
     res |-> IF o.res = "Ok" THEN "ok"
             ELSE IF o.res = "Conflict" THEN "conflict"
             ELSE IF o.fault THEN "fault" ELSE "fail"]

ReadFault(call) == [call |-> call, arg |-> "-", res |-> "fault"]

Idle(q) == pc[q] \in {"idle", "done"}

NoPre == [owner |-> "none", claims |-> {}, wts |-> {}, brs |-> {}, mrg |-> {},
          mh |-> NoBead, unres |-> FALSE, tracker |-> [b \in Beads |-> "open"],
          session |-> NoSession, tasks |-> NoTasks]

Snapshot(p) ==
    [owner |-> p, claims |-> claims, wts |-> worktrees, brs |-> branches,
     mrg |-> merged, mh |-> mergeHead, unres |-> unresolved, tracker |-> tracker,
     session |-> session, tasks |-> tasks]

SetGit(st) ==
    /\ worktrees' = st.wts
    /\ branches' = st.brs
    /\ merged' = st.mrg
    /\ mergeHead' = st.mh
    /\ unresolved' = st.unres

\* The commands of all processes were invoked together, in state pre.
Together == "all"

\* The output of a finished command is read before anything else happens
\* (reading it changes nothing but the reader's record of it), unless it is
\* one of the commands invoked together, whose outputs are read together.
Observed == \A q \in Procs : pc[q] = "done" => pre.owner = Together

\* Process p moves to newpc, having returned res (when newpc is "done") and
\* made the calls in entries.
Step(p, newpc, res, entries) ==
    /\ Observed
    /\ pc' = [pc EXCEPT ![p] = newpc]
    /\ result' = [result EXCEPT ![p] = res]
    /\ log' = [log EXCEPT ![p] = @ \o entries]

Locals == <<op, bead, flag, head_commit, pre, deps, now, invoked, stale, ext>>

FirstPc(o) ==
    CASE o = "claim" -> "c_get"
      [] o = "next" -> "n_ready"
      [] o = "release" -> "r_check"
      [] o = "abort" -> "a_check"
      [] o = "resolve" -> "s_check"

Flags(o) ==
    CASE o = "claim" -> {"force", "noforce"}
      [] o = "release" -> {"done", "blocked", "failed", "invalid"}
      [] OTHER -> {"-"}

\* The agent invokes a command.
Start(p) ==
    /\ pc[p] = "idle"
    /\ Observed
    /\ invoked < MaxOps
    /\ invoked' = invoked + 1
    /\ \E o \in {"claim", "next", "release", "abort", "resolve"} :
       \E b \in (IF o = "next" THEN {NoBead} ELSE Beads) :
       \E f \in Flags(o) :
          /\ op' = [op EXCEPT ![p] = o]
          /\ bead' = [bead EXCEPT ![p] = b]
          /\ flag' = [flag EXCEPT ![p] = f]
          /\ pc' = [pc EXCEPT ![p] = FirstPc(o)]
    /\ pre' = IF \A q \in Procs \ {p} : Idle(q) THEN Snapshot(p) ELSE NoPre
    /\ UNCHANGED <<claims, git, tracker, deps, now, head_commit, result, log, stale, ext>>

\* The process has exited and its output has been read.
Return(p) ==
    /\ pc[p] = "done"
    /\ pc' = [pc EXCEPT ![p] = "idle"]
    /\ op' = [op EXCEPT ![p] = "none"]
    /\ bead' = [bead EXCEPT ![p] = NoBead]
    /\ flag' = [flag EXCEPT ![p] = "-"]
    /\ head_commit' = [head_commit EXCEPT ![p] = NoCommit]
    /\ result' = [result EXCEPT ![p] = "none"]
    /\ log' = [log EXCEPT ![p] = <<>>]
    /\ pre' = IF pre.owner = p THEN NoPre ELSE pre
    /\ stale' = [stale EXCEPT ![p] = NoStale]
    /\ ready' = [ready EXCEPT ![p] = <<>>]
    /\ hook' = [hook EXCEPT ![p] = NoHook]
    /\ existing' = [existing EXCEPT ![p] = NoExisting]
    /\ UNCHANGED <<claims, git, tracker, deps, now, invoked, priority, session, tasks>>

\* ---------------------------------------------------------------- tools/claim.rs

\* Faulty variant: --force bypassing the closed check as well.
ClaimGetBead_ForceSkipsClosed(p) ==
    /\ pc[p] = "c_get"
    /\ \/ Step(p, "done", "err_get_bead", <<ReadFault("get_bead")>>)
       \/ IF tracker[bead[p]] = "closed" /\ flag[p] # "force"
          THEN Step(p, "done", "closed", <<>>)
          ELSE Step(p, IF flag[p] = "force" THEN "c_check" ELSE "c_ready", "none", <<>>)
    /\ UNCHANGED <<claims, git, tracker, Locals>>

\* 1-2. get_bead, and the closed check
ClaimGetBead(p) ==
    /\ pc[p] = "c_get"
    /\ \/ Step(p, "done", "err_get_bead", <<ReadFault("get_bead")>>)
       \/ IF tracker[bead[p]] = "closed"
          THEN Step(p, "done", "closed", <<>>)
          ELSE Step(p, IF flag[p] = "force" THEN "c_check" ELSE "c_ready", "none", <<>>)
    /\ UNCHANGED <<claims, git, tracker, Locals>>

\* 3. is_bead_ready, unless --force
ClaimCheckReady(p) ==
    /\ pc[p] = "c_ready"
    /\ IF is_bead_ready(bead[p])
       THEN Step(p, "c_check", "none", <<>>)
       ELSE Step(p, "done", "not_ready", <<>>)
    /\ UNCHANGED <<claims, git, tracker, Locals>>

\* Faulty variant: claim without the claim-row check.
ClaimCheckClaimed_Blind(p) ==
    /\ pc[p] = "c_check"
    /\ Step(p, "c_create", "none", <<>>)
    /\ UNCHANGED <<claims, git, tracker, Locals>>

\* Faulty variant: a claim of a claimed bead refreshing the row's claimed_at.
ClaimCheckClaimed_Refreshes(p) ==
    /\ pc[p] = "c_check"
    /\ IF ClaimExists(bead[p])
       THEN /\ Step(p, "done", "already_claimed", <<>>)
            /\ claims' = {IF r.bead_id = bead[p] THEN [r EXCEPT !.claimed_at = now] ELSE r :
                             r \in claims}
       ELSE /\ Step(p, "c_create", "none", <<>>)
            /\ UNCHANGED claims
    /\ UNCHANGED <<git, tracker, Locals>>

\* 4. SELECT 1 FROM claims WHERE bead_id = ?
ClaimCheckClaimed(p) ==
    /\ pc[p] = "c_check"
    /\ IF ClaimExists(bead[p])
       THEN Step(p, "done", "already_claimed", <<>>)
       ELSE Step(p, "c_create", "none", <<>>)
    /\ UNCHANGED <<claims, git, tracker, Locals>>

\* 5. create_worktree(..)?
ClaimCreateWorktree(p) ==
    /\ pc[p] = "c_create"
    /\ \E o \in create_worktree(bead[p]) :
          /\ SetGit(o.st)
          /\ IF o.res = "Ok"
             THEN /\ Step(p, "c_insert", "none", <<Entry("create_worktree", "-", o)>>)
                  /\ head_commit' = [head_commit EXCEPT ![p] = HeadCommit]
             ELSE /\ Step(p, "done", "err_create", <<Entry("create_worktree", "-", o)>>)
                  /\ UNCHANGED head_commit
    /\ UNCHANGED <<claims, tracker, op, bead, flag, pre, deps, now, invoked, stale, ext>>

\* Faulty variant: claim going on to the tracker update whatever the insert
\* returned.
ClaimInsert_Unchecked(p) ==
    /\ pc[p] = "c_insert"
    /\ \E o \in insert_claim(ClaimRow(bead[p], p, head_commit[p], now)) :
          /\ claims' = o.cl
          /\ Step(p, "c_update", "none", <<Entry("insert", "-", o)>>)
    /\ UNCHANGED <<git, tracker, Locals>>

\* 6. INSERT INTO claims
ClaimInsert(p) ==
    /\ pc[p] = "c_insert"
    /\ \E o \in insert_claim(ClaimRow(bead[p], p, head_commit[p], now)) :
          /\ claims' = o.cl
          /\ Step(p, IF o.res = "Ok" THEN "c_update" ELSE "c_rb_insert", "none",
                  <<Entry("insert", "-", o)>>)
    /\ UNCHANGED <<git, tracker, Locals>>

\* Faulty variant: the insert error returned without removing the worktree.
ClaimInsertRollback_Skipped(p) ==
    /\ pc[p] = "c_rb_insert"
    /\ Step(p, "done", "err_insert", <<>>)
    /\ UNCHANGED <<claims, git, tracker, Locals>>

\* 6. the insert failed: remove the orphaned worktree, return the error
ClaimInsertRollback(p) ==
    /\ pc[p] = "c_rb_insert"
    /\ \E o \in remove_worktree(bead[p], TRUE) :
          /\ SetGit(o.st)
          /\ Step(p, "done", "err_insert", <<Entry("remove_worktree", "force", o)>>)
    /\ UNCHANGED <<claims, tracker, Locals>>

\* 7. update_bead_status(bead, "in_progress")
ClaimUpdateStatus(p) ==
    /\ pc[p] = "c_update"
    /\ \E o \in update_bead_status(bead[p], "in_progress") :
          /\ tracker' = o.tr
          /\ IF o.res = "Ok"
             THEN Step(p, "done", "ok", <<Entry("update_bead_status", "in_progress", o)>>)
             ELSE Step(p, "c_rb_remove", "none",
                       <<Entry("update_bead_status", "in_progress", o)>>)
    /\ UNCHANGED <<claims, git, Locals>>

\* 7. the update failed: remove the worktree ...
ClaimRollbackWorktree(p) ==
    /\ pc[p] = "c_rb_remove"
    /\ \E o \in remove_worktree(bead[p], TRUE) :
          /\ SetGit(o.st)
          /\ Step(p, "c_rb_delete", "none", <<Entry("remove_worktree", "force", o)>>)
    /\ UNCHANGED <<claims, tracker, Locals>>

\* Faulty variant: the tracker error returned without deleting the claim row.
ClaimRollbackRow_Skipped(p) ==
    /\ pc[p] = "c_rb_delete"
    /\ Step(p, "done", "err_tracker", <<>>)
    /\ UNCHANGED <<claims, git, tracker, Locals>>

\* 7. ... and the claim row, return the error
ClaimRollbackRow(p) ==
    /\ pc[p] = "c_rb_delete"
    /\ \E o \in delete_claim(bead[p]) :
          /\ claims' = o.cl
          /\ Step(p, "done", "err_tracker", <<Entry("delete", "-", o)>>)
    /\ UNCHANGED <<git, tracker, Locals>>

claim_task(p) ==
    \/ ClaimGetBead(p)
    \/ ClaimCheckReady(p)
    \/ ClaimCheckClaimed(p)
    \/ ClaimCreateWorktree(p)
    \/ ClaimInsert(p)
    \/ ClaimInsertRollback(p)
    \/ ClaimUpdateStatus(p)
    \/ ClaimRollbackWorktree(p)
    \/ ClaimRollbackRow(p)

\* ---------------------------------------------------------------- tools/next.rs

\* Faulty variant: next going on with the first bead of the tracker when the
\* ready list is empty.
NextGetReady_PicksAny(p) ==
    /\ pc[p] = "n_ready"
    /\ \/ /\ Step(p, "done", "err_get_bead", <<ReadFault("get_ready_beads")>>)
          /\ UNCHANGED bead
       \/ /\ Step(p, "n_check", "none", <<>>)
          /\ bead' = [bead EXCEPT ![p] =
                         IF get_ready_beads = {}
                         THEN CHOOSE b \in Beads : \A c \in Beads \ {b} : Before(b, c)
                         ELSE FirstReady]
    /\ UNCHANGED <<claims, git, tracker, op, flag, head_commit, pre, deps, now, invoked,
                   stale, ext>>

\* 1-2. get_ready_beads, pick ready[0]
NextGetReady(p) ==
    /\ pc[p] = "n_ready"
    /\ \/ /\ Step(p, "done", "err_get_bead", <<ReadFault("get_ready_beads")>>)
          /\ UNCHANGED bead
       \/ IF get_ready_beads = {}
          THEN /\ Step(p, "done", "no_ready", <<>>)
               /\ UNCHANGED bead
          ELSE /\ Step(p, "n_check", "none", <<>>)
               /\ bead' = [bead EXCEPT ![p] = FirstReady]
    /\ UNCHANGED <<claims, git, tracker, op, flag, head_commit, pre, deps, now, invoked,
                   stale, ext>>

\* 3. SELECT 1 FROM claims WHERE bead_id = ?
NextCheckClaimed(p) ==
    /\ pc[p] = "n_check"
    /\ IF ClaimExists(bead[p])
       THEN Step(p, "done", "already_claimed", <<>>)
       ELSE Step(p, "n_create", "none", <<>>)
    /\ UNCHANGED <<claims, git, tracker, Locals>>

\* 4. create_worktree(..)?
NextCreateWorktree(p) ==
    /\ pc[p] = "n_create"
    /\ \E o \in create_worktree(bead[p]) :
          /\ SetGit(o.st)
          /\ IF o.res = "Ok"
             THEN /\ Step(p, "n_insert", "none", <<Entry("create_worktree", "-", o)>>)
                  /\ head_commit' = [head_commit EXCEPT ![p] = HeadCommit]
             ELSE /\ Step(p, "done", "err_create", <<Entry("create_worktree", "-", o)>>)
                  /\ UNCHANGED head_commit
    /\ UNCHANGED <<claims, tracker, op, bead, flag, pre, deps, now, invoked, stale, ext>>

\* 5. INSERT INTO claims ..?
NextInsert(p) ==
    /\ pc[p] = "n_insert"
    /\ \E o \in insert_claim(ClaimRow(bead[p], p, head_commit[p], now)) :
          /\ claims' = o.cl
          /\ IF o.res = "Ok"
             THEN Step(p, "n_update", "none", <<Entry("insert", "-", o)>>)
             ELSE Step(p, "done", "err_insert", <<Entry("insert", "-", o)>>)
    /\ UNCHANGED <<git, tracker, Locals>>

\* 6. update_bead_status(bead, "in_progress")?
NextUpdateStatus(p) ==
    /\ pc[p] = "n_update"
    /\ \E o \in update_bead_status(bead[p], "in_progress") :
          /\ tracker' = o.tr
          /\ Step(p, "done", IF o.res = "Ok" THEN "ok" ELSE "err_tracker",
                  <<Entry("update_bead_status", "in_progress", o)>>)
    /\ UNCHANGED <<claims, git, Locals>>

next_task(p) ==
    \/ NextGetReady(p)
    \/ NextCheckClaimed(p)
    \/ NextCreateWorktree(p)
    \/ NextInsert(p)
    \/ NextUpdateStatus(p)

\* ---------------------------------------------------------------- tools/release.rs

\* Faulty variant: release(done) reopening the bead.
ReleaseStatus_Reopen(f) ==
    CASE f = "blocked" -> "blocked"
      [] OTHER -> "open"

\* The tracker status each release status sets
ReleaseStatus(f) ==
    CASE f = "done" -> "closed"
      [] f = "blocked" -> "blocked"
      [] f = "failed" -> "open"

\* Faulty variant: release(blocked) taking the arm of release(failed).
ReleaseCheckClaim_BlockedDiscards(p) ==
    /\ pc[p] = "r_check"
    /\ IF ~ClaimExists(bead[p])
       THEN Step(p, "done", "no_claim", <<>>)
       ELSE CASE flag[p] = "done" -> Step(p, "r_merge", "none", <<>>)
              [] flag[p] \in {"blocked", "failed"} -> Step(p, "r_remove", "none", <<>>)
              [] OTHER -> Step(p, "done", "invalid_status", <<>>)
    /\ UNCHANGED <<claims, git, tracker, Locals>>

\* Faulty variant: release without its guards, an unknown status treated as
\* blocked.
ReleaseCheckClaim_Unguarded(p) ==
    /\ pc[p] = "r_check"
    /\ CASE flag[p] = "done" -> Step(p, "r_merge", "none", <<>>)
         [] flag[p] = "failed" -> Step(p, "r_remove", "none", <<>>)
         [] OTHER -> Step(p, "r_update", "none", <<>>)
    /\ UNCHANGED <<claims, git, tracker, Locals>>

\* 1. the claim check, then match status
ReleaseCheckClaim(p) ==
    /\ pc[p] = "r_check"
    /\ IF ~ClaimExists(bead[p])
       THEN Step(p, "done", "no_claim", <<>>)
       ELSE CASE flag[p] = "done" -> Step(p, "r_merge", "none", <<>>)
              [] flag[p] = "blocked" -> Step(p, "r_update", "none", <<>>)
              [] flag[p] = "failed" -> Step(p, "r_remove", "none", <<>>)
              [] OTHER -> Step(p, "done", "invalid_status", <<>>)
    /\ UNCHANGED <<claims, git, tracker, Locals>>

\* Faulty variant: release(done) going on to the removal whatever the merge
\* returned.
ReleaseMerge_Unchecked(p) ==
    /\ pc[p] = "r_merge"
    /\ \E o \in merge_worktree(bead[p]) :
          /\ SetGit(o.st)
          /\ Step(p, "r_remove", "none", <<Entry("merge_worktree", "main", o)>>)
    /\ UNCHANGED <<claims, tracker, Locals>>

\* "done": merge_worktree(bead, "main")
ReleaseMerge(p) ==
    /\ pc[p] = "r_merge"
    /\ \E o \in merge_worktree(bead[p]) :
          /\ SetGit(o.st)
          /\ Step(p, IF o.res = "Ok" THEN "r_remove" ELSE "r_isconflict", "none",
                  <<Entry("merge_worktree", "main", o)>>)
    /\ UNCHANGED <<claims, tracker, Locals>>

\* "done", the merge failed: is_in_merge_conflict picks the message
ReleaseIsConflict(p) ==
    /\ pc[p] = "r_isconflict"
    /\ Step(p, "done", IF is_in_merge_conflict THEN "conflict" ELSE "merge_failed", <<>>)
    /\ UNCHANGED <<claims, git, tracker, Locals>>

\* Faulty variant: release never forcing the removal.
ReleaseRemoveWorktree_Unforced(p) ==
    /\ pc[p] = "r_remove"
    /\ \E o \in remove_worktree(bead[p], FALSE) :
          /\ SetGit(o.st)
          /\ Step(p, IF o.res = "Ok" THEN "r_update" ELSE "done",
                  IF o.res = "Ok" THEN "none" ELSE "err_remove",
                  <<Entry("remove_worktree", "-", o)>>)
    /\ UNCHANGED <<claims, tracker, Locals>>

\* "done": remove_worktree(bead, false)?   "failed": remove_worktree(bead, true)?
ReleaseRemoveWorktree(p) ==
    /\ pc[p] = "r_remove"
    /\ \E o \in remove_worktree(bead[p], flag[p] = "failed") :
          /\ SetGit(o.st)
          /\ IF o.res = "Ok"
             THEN Step(p, "r_update", "none",
                       <<Entry("remove_worktree", IF flag[p] = "failed" THEN "force" ELSE "-", o)>>)
             ELSE Step(p, "done", "err_remove",
                       <<Entry("remove_worktree", IF flag[p] = "failed" THEN "force" ELSE "-", o)>>)
    /\ UNCHANGED <<claims, tracker, Locals>>

\* update_bead_status(bead, closed | blocked | open)?
ReleaseUpdateStatus(p) ==
    /\ pc[p] = "r_update"
    /\ \E o \in update_bead_status(bead[p], ReleaseStatus(flag[p])) :
          /\ tracker' = o.tr
          /\ IF o.res = "Ok"
             THEN Step(p, "r_delete", "none",
                       <<Entry("update_bead_status", ReleaseStatus(flag[p]), o)>>)
             ELSE Step(p, "done", "err_tracker",
                       <<Entry("update_bead_status", ReleaseStatus(flag[p]), o)>>)
    /\ UNCHANGED <<claims, git, Locals>>

\* DELETE FROM claims WHERE bead_id = ?
ReleaseDeleteClaim(p) ==
    /\ pc[p] = "r_delete"
    /\ \E o \in delete_claim(bead[p]) :
          /\ claims' = o.cl
          /\ Step(p, "done", IF o.res = "Ok" THEN "ok" ELSE "err_delete",
                  <<Entry("delete", "-", o)>>)
    /\ UNCHANGED <<git, tracker, Locals>>

release_bead(p) ==
    \/ ReleaseCheckClaim(p)
    \/ ReleaseMerge(p)
    \/ ReleaseIsConflict(p)
    \/ ReleaseRemoveWorktree(p)
    \/ ReleaseUpdateStatus(p)
    \/ ReleaseDeleteClaim(p)

\* ---------------------------------------------------------------- tools/abort.rs

\* 1. the claim check
AbortCheckClaim(p) ==
    /\ pc[p] = "a_check"
    /\ IF ClaimExists(bead[p])
       THEN Step(p, "a_inmerge", "none", <<>>)
       ELSE Step(p, "done", "no_claim", <<>>)
    /\ UNCHANGED <<claims, git, tracker, Locals>>

\* 2. is_in_merge_conflict
AbortCheckMerge(p) ==
    /\ pc[p] = "a_inmerge"
    /\ IF is_in_merge_conflict
       THEN Step(p, "a_branch", "none", <<>>)
       ELSE Step(p, "done", "not_in_merge", <<>>)
    /\ UNCHANGED <<claims, git, tracker, Locals>>

\* 3. get_merge_branch: refuse a merge known to be another bead's
AbortCheckBranch(p) ==
    /\ pc[p] = "a_branch"
    /\ \E mb \in get_merge_branch :
          IF mb # "None" /\ mb # bead[p]
          THEN Step(p, "done", "wrong_bead", <<>>)
          ELSE Step(p, "a_abort", "none",
                    IF mb = "None" THEN <<ReadFault("get_merge_branch")>> ELSE <<>>)
    /\ UNCHANGED <<claims, git, tracker, Locals>>

\* Faulty variant: abort discarding the bead's worktree with the merge.
AbortMerge_Discards(p) ==
    /\ pc[p] = "a_abort"
    /\ \E o \in git_merge_abort :
          /\ SetGit([o.st EXCEPT !.wts = @ \ {bead[p]}])
          /\ Step(p, "done", IF o.res = "Ok" THEN "ok" ELSE "err_git",
                  <<Entry("abort_merge", "-", o)>>)
    /\ UNCHANGED <<claims, tracker, Locals>>

\* 4. worktree::abort_merge(..)?
AbortMerge(p) ==
    /\ pc[p] = "a_abort"
    /\ \E o \in git_merge_abort :
          /\ SetGit(o.st)
          /\ Step(p, "done", IF o.res = "Ok" THEN "ok" ELSE "err_git",
                  <<Entry("abort_merge", "-", o)>>)
    /\ UNCHANGED <<claims, tracker, Locals>>

abort_merge(p) ==
    \/ AbortCheckClaim(p)
    \/ AbortCheckMerge(p)
    \/ AbortCheckBranch(p)
    \/ AbortMerge(p)

\* ---------------------------------------------------------------- tools/resolve.rs

\* 1. the claim check
ResolveCheckClaim(p) ==
    /\ pc[p] = "s_check"
    /\ IF ClaimExists(bead[p])
       THEN Step(p, "s_inmerge", "none", <<>>)
       ELSE Step(p, "done", "no_claim", <<>>)
    /\ UNCHANGED <<claims, git, tracker, Locals>>

\* Faulty variant: resolve without the merge-in-progress check.
ResolveCheckMerge_Skipped(p) ==
    /\ pc[p] = "s_inmerge"
    /\ Step(p, "s_branch", "none", <<>>)
    /\ UNCHANGED <<claims, git, tracker, Locals>>

\* 2. is_in_merge_conflict
ResolveCheckMerge(p) ==
    /\ pc[p] = "s_inmerge"
    /\ IF is_in_merge_conflict
       THEN Step(p, "s_branch", "none", <<>>)
       ELSE Step(p, "done", "not_in_merge", <<>>)
    /\ UNCHANGED <<claims, git, tracker, Locals>>

\* 3. get_merge_branch: refuse a merge known to be another bead's
ResolveCheckBranch(p) ==
    /\ pc[p] = "s_branch"
    /\ \E mb \in get_merge_branch :
          IF mb # "None" /\ mb # bead[p]
          THEN Step(p, "done", "wrong_bead", <<>>)
          ELSE Step(p, "s_unres", "none",
                    IF mb = "None" THEN <<ReadFault("get_merge_branch")>> ELSE <<>>)
    /\ UNCHANGED <<claims, git, tracker, Locals>>

\* Faulty variant: resolve without the unresolved-paths check.
ResolveCheckUnresolved_Skipped(p) ==
    /\ pc[p] = "s_unres"
    /\ Step(p, "s_complete", "none", <<>>)
    /\ UNCHANGED <<claims, git, tracker, Locals>>

\* 4. has_unresolved_conflicts
ResolveCheckUnresolved(p) ==
    /\ pc[p] = "s_unres"
    /\ IF has_unresolved_conflicts
       THEN Step(p, "done", "unresolved", <<>>)
       ELSE Step(p, "s_complete", "none", <<>>)
    /\ UNCHANGED <<claims, git, tracker, Locals>>

\* 5. complete_merge(..)?
ResolveCompleteMerge(p) ==
    /\ pc[p] = "s_complete"
    /\ \E o \in complete_merge :
          /\ SetGit(o.st)
          /\ IF o.res = "Ok"
             THEN Step(p, "s_remove", "none", <<Entry("complete_merge", "-", o)>>)
             ELSE Step(p, "done", "err_git", <<Entry("complete_merge", "-", o)>>)
    /\ UNCHANGED <<claims, tracker, Locals>>

\* 6. remove_worktree(bead, false)?
ResolveRemoveWorktree(p) ==
    /\ pc[p] = "s_remove"
    /\ \E o \in remove_worktree(bead[p], FALSE) :
          /\ SetGit(o.st)
          /\ IF o.res = "Ok"
             THEN Step(p, "s_update", "none", <<Entry("remove_worktree", "-", o)>>)
             ELSE Step(p, "done", "err_remove", <<Entry("remove_worktree", "-", o)>>)
    /\ UNCHANGED <<claims, tracker, Locals>>

\* Faulty variant: resolve reopening the bead.
ResolveUpdateStatus_Reopen(p) ==
    /\ pc[p] = "s_update"
    /\ \E o \in update_bead_status(bead[p], "open") :
          /\ tracker' = o.tr
          /\ IF o.res = "Ok"
             THEN Step(p, "s_delete", "none", <<Entry("update_bead_status", "open", o)>>)
             ELSE Step(p, "done", "err_tracker", <<Entry("update_bead_status", "open", o)>>)
    /\ UNCHANGED <<claims, git, Locals>>

\* 7. update_bead_status(bead, "closed")?
ResolveUpdateStatus(p) ==
    /\ pc[p] = "s_update"
    /\ \E o \in update_bead_status(bead[p], "closed") :
          /\ tracker' = o.tr
          /\ IF o.res = "Ok"
             THEN Step(p, "s_delete", "none", <<Entry("update_bead_status", "closed", o)>>)
             ELSE Step(p, "done", "err_tracker", <<Entry("update_bead_status", "closed", o)>>)
    /\ UNCHANGED <<claims, git, Locals>>

\* 8. DELETE FROM claims WHERE bead_id = ?
ResolveDeleteClaim(p) ==
    /\ pc[p] = "s_delete"
    /\ \E o \in delete_claim(bead[p]) :
          /\ claims' = o.cl
          /\ Step(p, "done", IF o.res = "Ok" THEN "ok" ELSE "err_delete",
                  <<Entry("delete", "-", o)>>)
    /\ UNCHANGED <<git, tracker, Locals>>

resolve_merge(p) ==
    \/ ResolveCheckClaim(p)
    \/ ResolveCheckMerge(p)
    \/ ResolveCheckBranch(p)
    \/ ResolveCheckUnresolved(p)
    \/ ResolveCompleteMerge(p)
    \/ ResolveRemoveWorktree(p)
    \/ ResolveUpdateStatus(p)
    \/ ResolveDeleteClaim(p)

\* ---------------------------------------------------------------- tools/stale.rs

\* threshold_ms = minutes * 60 * 1000
MsPerMinute == 60 * 1000

\* The --minutes values tried
Minutes == {0, 1, 2}

\* A row of the listing: bead_id, agent_id, worktree_path, claimed_at of the
\* claim row, and age_minutes = (now - claimed_at) / 60000
StaleClaim(r) ==
    [bead_id |-> r.bead_id, agent_id |-> r.agent_id, worktree_path |-> r.worktree_path,
     claimed_at |-> r.claimed_at, age_minutes |-> (now - r.claimed_at) \div MsPerMinute]

\* The orders in which a SELECT without ORDER BY can return the rows S
Orders(S) ==
    {q \in [1..Cardinality(S) -> S] : \A i, j \in 1..Cardinality(S) : q[i] = q[j] => i = j}

\* The agent invokes stale --minutes m [--cleanup], no other command running.
StartStale(p) ==
    /\ pc[p] = "idle"
    /\ \A q \in Procs : pc[q] \in {"idle", "crashed"}
    /\ invoked < MaxOps
    /\ invoked' = invoked + 1
    /\ \E m \in Minutes : \E c \in BOOLEAN :
          stale' = [stale EXCEPT ![p] = [NoStale EXCEPT !.minutes = m, !.cleanup = c]]
    /\ op' = [op EXCEPT ![p] = "stale"]
    /\ pc' = [pc EXCEPT ![p] = "t_query"]
    /\ pre' = Snapshot(p)
    /\ UNCHANGED <<claims, git, tracker, deps, now, bead, flag, head_commit, result, log, ext>>

\* Faulty variant: the listing taking the claim made exactly at the cutoff too.
StaleQuery_Inclusive(p) ==
    /\ pc[p] = "t_query"
    /\ LET cutoff == now - stale[p].minutes * MsPerMinute
           rows == {r \in claims : r.claimed_at <= cutoff}
       IN \/ /\ \E q \in Orders(rows) :
                   stale' = [stale EXCEPT ![p].stale_claims =
                                [i \in DOMAIN q |-> StaleClaim(q[i])]]
             /\ IF stale[p].cleanup /\ rows # {}
                THEN Step(p, "t_remove", "none", <<>>)
                ELSE Step(p, "done", "ok", <<>>)
          \/ /\ Step(p, "done", "err_query", <<ReadFault("select")>>)
             /\ UNCHANGED stale
    /\ UNCHANGED <<claims, git, tracker, op, bead, flag, head_commit, pre, deps, now, invoked, ext>>

\* Faulty variant: the cleanup loop entered whether or not --cleanup was given.
StaleQuery_AlwaysCleans(p) ==
    /\ pc[p] = "t_query"
    /\ LET cutoff == now - stale[p].minutes * MsPerMinute
           rows == {r \in claims : r.claimed_at < cutoff}
       IN \/ /\ \E q \in Orders(rows) :
                   stale' = [stale EXCEPT ![p].stale_claims =
                                [i \in DOMAIN q |-> StaleClaim(q[i])]]
             /\ IF rows # {}
                THEN Step(p, "t_remove", "none", <<>>)
                ELSE Step(p, "done", "ok", <<>>)
          \/ /\ Step(p, "done", "err_query", <<ReadFault("select")>>)
             /\ UNCHANGED stale
    /\ UNCHANGED <<claims, git, tracker, op, bead, flag, head_commit, pre, deps, now, invoked, ext>>

\* now, cutoff = now - threshold_ms, SELECT ... WHERE claimed_at < cutoff (an
\* error of the query is the command's error); without --cleanup, or with
\* nothing listed, the command returns here.
StaleQuery(p) ==
    /\ pc[p] = "t_query"
    /\ LET cutoff == now - stale[p].minutes * MsPerMinute
           rows == {r \in claims : r.claimed_at < cutoff}
       IN \/ /\ \E q \in Orders(rows) :
                   stale' = [stale EXCEPT ![p].stale_claims =
                                [i \in DOMAIN q |-> StaleClaim(q[i])]]
             /\ IF stale[p].cleanup /\ rows # {}
                THEN Step(p, "t_remove", "none", <<>>)
                ELSE Step(p, "done", "ok", <<>>)
          \/ /\ Step(p, "done", "err_query", <<ReadFault("select")>>)
             /\ UNCHANGED stale
    /\ UNCHANGED <<claims, git, tracker, op, bead, flag, head_commit, pre, deps, now, invoked, ext>>

\* for claim in &stale_claims: the bead of the iteration under way
Current(p) == stale[p].stale_claims[Len(stale[p].cleaned_up) + 1].bead_id

\* Faulty variant: a failed removal ending the command with its error.
StaleRemoveWorktree_Aborts(p) ==
    /\ pc[p] = "t_remove"
    /\ \E o \in remove_worktree(Current(p), TRUE) :
          /\ SetGit(o.st)
          /\ IF o.res = "Ok"
             THEN Step(p, "t_update", "none", <<Entry("remove_worktree", Current(p), o)>>)
             ELSE Step(p, "done", "err_remove", <<Entry("remove_worktree", Current(p), o)>>)
    /\ UNCHANGED <<claims, tracker, Locals>>

\* remove_worktree(bead, true); an error is printed and the loop goes on
StaleRemoveWorktree(p) ==
    /\ pc[p] = "t_remove"
    /\ \E o \in remove_worktree(Current(p), TRUE) :
          /\ SetGit(o.st)
          /\ Step(p, "t_update", "none", <<Entry("remove_worktree", Current(p), o)>>)
    /\ UNCHANGED <<claims, tracker, Locals>>

\* update_bead_status(bead, "open"); an error is printed and the loop goes on
StaleUpdateStatus(p) ==
    /\ pc[p] = "t_update"
    /\ \E o \in update_bead_status(Current(p), "open") :
          /\ tracker' = o.tr
          /\ Step(p, "t_delete", "none", <<Entry("update_bead_status", Current(p), o)>>)
    /\ UNCHANGED <<claims, git, Locals>>

\* Faulty variant: the cleanup reporting the bead without deleting its row.
StaleDeleteClaim_Keeps(p) ==
    /\ pc[p] = "t_delete"
    /\ \E o \in delete_claim(Current(p)) :
          /\ claims' = claims
          /\ stale' = [stale EXCEPT ![p].cleaned_up = Append(@, Current(p))]
          /\ IF Len(stale[p].cleaned_up) + 1 = Len(stale[p].stale_claims)
             THEN Step(p, "done", "ok", <<Entry("delete", Current(p), o)>>)
             ELSE Step(p, "t_remove", "none", <<Entry("delete", Current(p), o)>>)
    /\ UNCHANGED <<git, tracker, op, bead, flag, head_commit, pre, deps, now, invoked, ext>>

\* let _ = DELETE FROM claims WHERE bead_id = ?; cleaned_up.push(bead); the
\* next iteration, or Ok(StaleOutput) after the last
StaleDeleteClaim(p) ==
    /\ pc[p] = "t_delete"
    /\ \E o \in delete_claim(Current(p)) :
          /\ claims' = o.cl
          /\ stale' = [stale EXCEPT ![p].cleaned_up = Append(@, Current(p))]
          /\ IF Len(stale[p].cleaned_up) + 1 = Len(stale[p].stale_claims)
             THEN Step(p, "done", "ok", <<Entry("delete", Current(p), o)>>)
             ELSE Step(p, "t_remove", "none", <<Entry("delete", Current(p), o)>>)
    /\ UNCHANGED <<git, tracker, op, bead, flag, head_commit, pre, deps, now, invoked, ext>>

find_stale(p) ==
    \/ StaleQuery(p)
    \/ StaleRemoveWorktree(p)
    \/ StaleUpdateStatus(p)
    \/ StaleDeleteClaim(p)

\* ---------------------------------------------------------------- beads.rs: the ready query

\* Faulty variant: ORDER BY the priority alone.
KeyLeq_PriorityOnly(a, b) == PriorityRank(a) <= PriorityRank(b)

\* ORDER BY CASE priority ... END, id: row a may come before row b
KeyLeq(a, b) ==
    \/ PriorityRank(a) < PriorityRank(b)
    \/ PriorityRank(a) = PriorityRank(b) /\ IdRank(a) <= IdRank(b)

\* The lists the query of get_ready_beads can return: the rows the WHERE
\* clause keeps, in an order the ORDER BY allows.
ReadyLists ==
    {q \in Orders(ReadySet) : \A i, j \in DOMAIN q : i < j => KeyLeq(q[i], q[j])}

\* get_ready_beads as a caller sees it: Ok(beads), or the error of the
\* database.
GetReadyBeads(p) ==
    /\ pc[p] = "idle"
    /\ pc' = [pc EXCEPT ![p] = "done"]
    /\ op' = [op EXCEPT ![p] = "get_ready_beads"]
    /\ \/ /\ \E q \in ReadyLists : ready' = [ready EXCEPT ![p] = q]
          /\ result' = [result EXCEPT ![p] = "ok"]
          /\ UNCHANGED log
       \/ /\ result' = [result EXCEPT ![p] = "err_get_bead"]
          /\ log' = [log EXCEPT ![p] = <<ReadFault("get_ready_beads")>>]
          /\ UNCHANGED ready
    /\ UNCHANGED <<claims, git, tracker, deps, now, bead, flag, head_commit, pre, invoked,
                   stale, priority, session, hook, tasks, existing>>

\* ---------------------------------------------------------------- tools/session.rs

\* The values of --max-concurrent tried
MaxConcurrents == {-1, 0, 1, 2}

\* A bead id no issue has
UnknownBead == "BEAD-9"

\* Session { mode, bead_id, max_concurrent } as start_session builds it
Session(mode, b, max) ==
    IF mode = "agent"
    THEN [mode |-> "agent", bead_id |-> b, max_concurrent |-> 0]
    ELSE [mode |-> mode, bead_id |-> NoBead, max_concurrent |-> max]

\* session.json holds something serde cannot parse as a Session.
InvalidSession == [mode |-> "invalid", bead_id |-> NoBead, max_concurrent |-> 0]

\* The top of usize; it stands for 2^64, which only has to exceed every count.
UsizeTop == 1073741824

\* max_concurrent as usize: a negative i32 wraps to the top of the range
AsUsize(x) == IF x < 0 THEN UsizeTop + x ELSE x

\* The agent invokes a session command, no other command running:
\* start_session(mode, bead_id, max_concurrent), stop_session or
\* check_session.
StartSessionCommand(p) ==
    /\ \A q \in Procs : pc[q] = "idle"
    /\ invoked < MaxOps
    /\ invoked' = invoked + 1
    /\ \/ /\ op' = [op EXCEPT ![p] = "start_session"]
          /\ pc' = [pc EXCEPT ![p] = "w_write"]
          /\ \E mode \in {"agent", "orchestrator", "bogus"} :
             \E b \in Beads \cup {NoBead} :
             \E max \in MaxConcurrents :
                /\ mode = "agent" \/ b = NoBead
                /\ mode = "orchestrator" \/ max = 0
                /\ flag' = [flag EXCEPT ![p] = mode]
                /\ bead' = [bead EXCEPT ![p] = b]
                /\ hook' = [hook EXCEPT ![p].session = Session(mode, b, max)]
       \/ /\ op' = [op EXCEPT ![p] = "stop_session"]
          /\ pc' = [pc EXCEPT ![p] = "x_remove"]
          /\ UNCHANGED <<flag, bead, hook>>
       \/ /\ op' = [op EXCEPT ![p] = "check_session"]
          /\ pc' = [pc EXCEPT ![p] = "k_read"]
          /\ UNCHANGED <<flag, bead, hook>>
    /\ pre' = Snapshot(p)
    /\ UNCHANGED <<claims, git, tracker, deps, now, head_commit, result, log, stale,
                   priority, ready, session, tasks, existing>>

\* start_session: the mode and the bead id are checked, then session.json is
\* written.
SessionWrite(p) ==
    /\ pc[p] = "w_write"
    /\ IF flag[p] \notin {"agent", "orchestrator"} \/ (flag[p] = "agent" /\ bead[p] = NoBead)
       THEN /\ Step(p, "done", "err_session", <<>>)
            /\ UNCHANGED session
       ELSE \/ /\ Step(p, "done", "ok", <<[call |-> "write", arg |-> "session.json", res |-> "ok"]>>)
               /\ session' = hook[p].session
            \/ /\ Step(p, "done", "err_session", <<[call |-> "write", arg |-> "session.json", res |-> "fault"]>>)
               /\ UNCHANGED session
    /\ UNCHANGED <<claims, git, tracker, op, bead, flag, head_commit, pre, deps, now,
                   invoked, stale, priority, ready, hook, tasks, existing>>

\* The outcomes of stop_session: "No active session" when there is no file,
\* else fs::remove_file
stop_session ==
    IF session = NoSession
    THEN {[res |-> "Ok", fault |-> FALSE, file |-> session]}
    ELSE {[res |-> "Ok", fault |-> FALSE, file |-> NoSession],
          [res |-> "Err", fault |-> TRUE, file |-> session]}

\* The command stop_session
SessionStop(p) ==
    /\ pc[p] = "x_remove"
    /\ \E o \in stop_session :
          /\ session' = o.file
          /\ Step(p, "done", IF o.res = "Ok" THEN "ok" ELSE "err_session",
                  IF session = NoSession THEN <<>> ELSE <<Entry("remove_file", "session.json", o)>>)
    /\ UNCHANGED <<claims, git, tracker, op, bead, flag, head_commit, pre, deps, now,
                   invoked, stale, priority, ready, hook, tasks, existing>>

\* HookCheckOutput { decision, reason }: the check returns it.
Decide(p, decision, reason) ==
    /\ Step(p, "done", "ok", <<>>)
    /\ hook' = [hook EXCEPT ![p].decision = decision, ![p].reason = reason]

\* check_session: the session file is read and parsed; without a usable
\* session the exit is approved, else the mode decides what is checked.
CheckReadSession(p) ==
    /\ pc[p] = "k_read"
    /\ \/ /\ session # NoSession
          /\ Step(p, "done", "ok", <<ReadFault("read_to_string")>>)
          /\ hook' = [hook EXCEPT ![p].decision = "approve", ![p].reason = "cannot_read"]
       \/ CASE session = NoSession -> Decide(p, "approve", "no_session")
            [] session = InvalidSession -> Decide(p, "approve", "invalid_file")
            [] session.mode = "agent" /\ session.bead_id = NoBead ->
                  /\ Step(p, "done", "ok", <<>>)
                  /\ hook' = [hook EXCEPT ![p].session = session,
                                          ![p].decision = "approve",
                                          ![p].reason = "no_bead_id"]
            [] session.mode = "agent" /\ session.bead_id # NoBead ->
                  /\ Step(p, "k_bead", "none", <<>>)
                  /\ hook' = [hook EXCEPT ![p].session = session]
            [] session.mode = "orchestrator" ->
                  /\ Step(p, "k_ready", "none", <<>>)
                  /\ hook' = [hook EXCEPT ![p].session = session]
            [] OTHER ->
                  /\ Step(p, "done", "ok", <<>>)
                  /\ hook' = [hook EXCEPT ![p].session = session,
                                          ![p].decision = "approve",
                                          ![p].reason = "unknown_mode"]
    /\ UNCHANGED <<claims, git, tracker, op, bead, flag, head_commit, pre, deps, now,
                   invoked, stale, priority, ready, session, tasks, existing>>

\* check_agent_session: get_bead; a closed bead goes on to clear the session,
\* any other status blocks, an error approves.
CheckAgentBead(p) ==
    /\ pc[p] = "k_bead"
    /\ LET b == hook[p].session.bead_id
       IN \/ /\ Step(p, "done", "ok", <<ReadFault("get_bead")>>)
             /\ hook' = [hook EXCEPT ![p].decision = "approve", ![p].reason = "cannot_check"]
          \/ IF b \notin Beads
             THEN Decide(p, "approve", "cannot_check")
             ELSE IF tracker[b] = "closed"
             THEN /\ Step(p, "k_stop", "none", <<>>)
                  /\ hook' = [hook EXCEPT ![p].reason = "closed_cleared"]
             ELSE Decide(p, "block", "working")
    /\ UNCHANGED <<claims, git, tracker, op, bead, flag, head_commit, pre, deps, now,
                   invoked, stale, priority, ready, session, tasks, existing>>

\* check_orchestrator_session: get_ready_beads().unwrap_or_default()
CheckGetReady(p) ==
    /\ pc[p] = "k_ready"
    /\ \/ /\ \E q \in ReadyLists :
                /\ ready' = [ready EXCEPT ![p] = q]
                /\ hook' = [hook EXCEPT ![p].ready_count = Len(q)]
          /\ Step(p, "k_count", "none", <<>>)
       \/ /\ ready' = [ready EXCEPT ![p] = <<>>]
          /\ hook' = [hook EXCEPT ![p].ready_count = 0]
          /\ Step(p, "k_count", "none", <<ReadFault("get_ready_beads")>>)
    /\ UNCHANGED <<claims, git, tracker, op, bead, flag, head_commit, pre, deps, now,
                   invoked, stale, priority, session, tasks, existing>>

\* Faulty variant: the orchestrator check without the arm that waits for
\* active agents.
OrchestratorReason_NoWait(ready_count, active_count, max_concurrent) ==
    IF ready_count > 0 /\ active_count < AsUsize(max_concurrent) THEN "spawn"
    ELSE IF ready_count = 0 THEN "all_done_cleared"
    ELSE "complete"

\* The if / else if chain of check_orchestrator_session
OrchestratorReason(ready_count, active_count, max_concurrent) ==
    IF ready_count > 0 /\ active_count < AsUsize(max_concurrent) THEN "spawn"
    ELSE IF active_count > 0 THEN "waiting"
    ELSE IF ready_count = 0 THEN "all_done_cleared"
    ELSE "complete"

\* SELECT COUNT(*) FROM claims, unwrap_or(0); then the decision
CheckCountClaims(p) ==
    /\ pc[p] = "k_count"
    /\ \E cnt \in {[n |-> Cardinality(claims), entries |-> <<>>],
                   [n |-> 0, entries |-> <<ReadFault("count")>>]} :
          LET reason == OrchestratorReason(hook[p].ready_count, cnt.n,
                                           hook[p].session.max_concurrent)
          IN CASE reason \in {"spawn", "waiting"} ->
                     /\ Step(p, "done", "ok", cnt.entries)
                     /\ hook' = [hook EXCEPT ![p].active_count = cnt.n,
                                             ![p].decision = "block",
                                             ![p].reason = reason]
               [] reason = "all_done_cleared" ->
                     /\ Step(p, "k_stop", "none", cnt.entries)
                     /\ hook' = [hook EXCEPT ![p].active_count = cnt.n,
                                             ![p].reason = reason]
               [] OTHER ->
                     /\ Step(p, "done", "ok", cnt.entries)
                     /\ hook' = [hook EXCEPT ![p].active_count = cnt.n,
                                             ![p].decision = "approve",
                                             ![p].reason = reason]
    /\ UNCHANGED <<claims, git, tracker, op, bead, flag, head_commit, pre, deps, now,
                   invoked, stale, priority, ready, session, tasks, existing>>

\* let _ = stop_session(); then approve
CheckClearSession(p) ==
    /\ pc[p] = "k_stop"
    /\ \E o \in stop_session :
          /\ session' = o.file
          /\ Step(p, "done", "ok",
                  IF session = NoSession THEN <<>> ELSE <<Entry("remove_file", "session.json", o)>>)
    /\ hook' = [hook EXCEPT ![p].decision = "approve"]
    /\ UNCHANGED <<claims, git, tracker, op, bead, flag, head_commit, pre, deps, now,
                   invoked, stale, priority, ready, tasks, existing>>

check_session(p) ==
    \/ CheckReadSession(p)
    \/ CheckAgentBead(p)
    \/ CheckGetReady(p)
    \/ CheckCountClaims(p)
    \/ CheckClearSession(p)

\* ---------------------------------------------------------------- tools/coordination.rs

\* A row of table tasks owned by agent, its heartbeat at t
TaskRow(agent, t) == [present |-> TRUE, owner |-> agent, last_heartbeat |-> t]

\* One SQL statement fails for a reason outside the program.
TaskFault(call, t) == [call |-> call, arg |-> t, res |-> "fault"]

\* The statement fails because the schema has no such table.
NoSuchTable(call, t) == [call |-> call, arg |-> t, res |-> "fail"]

TaskOk(call, t) == [call |-> call, arg |-> t, res |-> "ok"]

FirstTaskPc(o) ==
    CASE o = "claim_task" -> "t_select"
      [] o = "release_task" -> "t_rselect"
      [] o = "heartbeat" -> "t_beat"
      [] OTHER -> "t_exists"

\* An agent calls claim_task, release_task, heartbeat or update_workplan with
\* its own agent_id.
StartTask(p) ==
    /\ pc[p] = "idle"
    /\ Observed
    /\ invoked < MaxOps
    /\ invoked' = invoked + 1
    /\ \E o \in {"claim_task", "release_task", "heartbeat", "update_workplan"} :
       \E b \in Beads :
       \E f \in (IF o = "claim_task" THEN {"-", "auto_split"} ELSE {"-"}) :
          /\ op' = [op EXCEPT ![p] = o]
          /\ bead' = [bead EXCEPT ![p] = b]
          /\ flag' = [flag EXCEPT ![p] = f]
          /\ pc' = [pc EXCEPT ![p] = FirstTaskPc(o)]
    /\ pre' = IF \A q \in Procs \ {p} : Idle(q) THEN Snapshot(p) ELSE NoPre
    /\ UNCHANGED <<claims, git, tracker, deps, now, head_commit, result, log, stale, ext>>

\* What SELECT ... FROM tasks WHERE bead_id = ?1 finds, its error turned into
\* None by .ok(): the entries logged and the row seen
TaskSelected(call, b) ==
    IF ~tasks.table
    THEN {[entries |-> <<NoSuchTable(call, b)>>, row |-> NoExisting]}
    ELSE {[entries |-> <<TaskOk(call, b)>>,
           row |-> [found |-> tasks.rows[b].present, owner |-> tasks.rows[b].owner]],
          [entries |-> <<TaskFault(call, b)>>, row |-> NoExisting]}

\* claim_task: the SELECT of the row and the owner check
ClaimTaskSelect(p) ==
    /\ pc[p] = "t_select"
    /\ \E o \in TaskSelected("select", bead[p]) :
          /\ existing' = [existing EXCEPT ![p] = o.row]
          /\ IF o.row.found /\ o.row.owner # NoOwner /\ o.row.owner # p
             THEN Step(p, "done", "refused", o.entries)
             ELSE Step(p, "t_estimate", "none", o.entries)
    /\ UNCHANGED <<claims, git, tracker, op, bead, flag, head_commit, pre, deps, now,
                   invoked, stale, priority, ready, session, hook, tasks>>

\* estimate_task_size: a query over bead_symbols; whether the estimate
\* exceeds the threshold depends on the symbols registered for the bead.
ClaimTaskEstimate(p) ==
    /\ pc[p] = "t_estimate"
    /\ IF ~tasks.table
       THEN Step(p, "done", "err_task", <<NoSuchTable("estimate", bead[p])>>)
       ELSE \/ Step(p, "done", "err_task", <<TaskFault("estimate", bead[p])>>)
            \/ \E exceeds_threshold \in BOOLEAN :
                  Step(p, IF flag[p] = "auto_split" /\ exceeds_threshold
                          THEN "t_split" ELSE "t_write", "none",
                       <<TaskOk("estimate", bead[p])>>)
    /\ UNCHANGED <<claims, git, tracker, op, bead, flag, head_commit, pre, deps, now,
                   invoked, stale, ext>>

\* What INSERT INTO tasks of a row for t does: the primary key refuses a
\* second row.
TaskInsert(t, row) ==
    IF tasks.rows[t].present
    THEN {[res |-> "Err", fault |-> FALSE, tasks |-> tasks]}
    ELSE {[res |-> "Ok", fault |-> FALSE, tasks |-> [tasks EXCEPT !.rows[t] = row]],
          [res |-> "Err", fault |-> TRUE, tasks |-> tasks]}

\* create_subtasks: INSERT of the subtask with the claimer as owner
ClaimTaskSplit(p) ==
    /\ pc[p] = "t_split"
    /\ \E o \in TaskInsert(Subtask[bead[p]], TaskRow(p, now)) :
          /\ tasks' = o.tasks
          /\ Step(p, IF o.res = "Ok" THEN "t_write" ELSE "done",
                  IF o.res = "Ok" THEN "none" ELSE "err_task",
                  <<Entry("insert", Subtask[bead[p]], o)>>)
    /\ UNCHANGED <<claims, git, tracker, op, bead, flag, head_commit, pre, deps, now,
                   invoked, stale, priority, ready, session, hook, existing>>

\* UPDATE tasks SET owner = ?1, last_heartbeat = ?2 ... WHERE bead_id = ?7
TaskUpdateOwner(b, agent) ==
    {[res |-> "Ok", fault |-> FALSE,
      tasks |-> IF tasks.rows[b].present
                THEN [tasks EXCEPT !.rows[b] = TaskRow(agent, now)]
                ELSE tasks],
     [res |-> "Err", fault |-> TRUE, tasks |-> tasks]}

\* claim_task: UPDATE when the SELECT had found a row, else INSERT
ClaimTaskWrite(p) ==
    /\ pc[p] = "t_write"
    /\ \E o \in (IF existing[p].found
                 THEN TaskUpdateOwner(bead[p], p)
                 ELSE TaskInsert(bead[p], TaskRow(p, now))) :
          /\ tasks' = o.tasks
          /\ Step(p, "done", IF o.res = "Ok" THEN "ok" ELSE "err_task",
                  <<Entry(IF existing[p].found THEN "update" ELSE "insert", bead[p], o)>>)
    /\ UNCHANGED <<claims, git, tracker, op, bead, flag, head_commit, pre, deps, now,
                   invoked, stale, priority, ready, session, hook, existing>>

claim_task_rows(p) ==
    \/ ClaimTaskSelect(p)
    \/ ClaimTaskEstimate(p)
    \/ ClaimTaskSplit(p)
    \/ ClaimTaskWrite(p)

\* release_task: the SELECT; no row and another owner both end it. A NULL
\* owner is read as the empty string, which is no agent's id.
ReleaseTaskSelect(p) ==
    /\ pc[p] = "t_rselect"
    /\ \E o \in TaskSelected("select", bead[p]) :
          /\ existing' = [existing EXCEPT ![p] = o.row]
          /\ IF ~o.row.found
             THEN Step(p, "done", "not_found", o.entries)
             ELSE IF o.row.owner # p
             THEN Step(p, "done", "refused", o.entries)
             ELSE Step(p, "t_clear", "none", o.entries)
    /\ UNCHANGED <<claims, git, tracker, op, bead, flag, head_commit, pre, deps, now,
                   invoked, stale, priority, ready, session, hook, tasks>>

\* UPDATE tasks SET owner = NULL ... WHERE bead_id = ?2
ReleaseTaskClear(p) ==
    /\ pc[p] = "t_clear"
    /\ \/ /\ tasks' = [tasks EXCEPT !.rows[bead[p]].owner =
                          IF tasks.rows[bead[p]].present THEN NoOwner ELSE @]
          /\ Step(p, "done", "ok", <<TaskOk("update", bead[p])>>)
       \/ /\ UNCHANGED tasks
          /\ Step(p, "done", "err_task", <<TaskFault("update", bead[p])>>)
    /\ UNCHANGED <<claims, git, tracker, op, bead, flag, head_commit, pre, deps, now,
                   invoked, stale, priority, ready, session, hook, existing>>

release_task(p) ==
    \/ ReleaseTaskSelect(p)
    \/ ReleaseTaskClear(p)

\* heartbeat: UPDATE tasks SET last_heartbeat = ?1 WHERE bead_id = ?2 AND
\* owner = ?3; no row changed is status "error".
HeartbeatUpdate(p) ==
    /\ pc[p] = "t_beat"
    /\ IF ~tasks.table
       THEN /\ Step(p, "done", "err_task", <<NoSuchTable("update", bead[p])>>)
            /\ UNCHANGED tasks
       ELSE \/ /\ Step(p, "done", "err_task", <<TaskFault("update", bead[p])>>)
               /\ UNCHANGED tasks
            \/ IF tasks.rows[bead[p]].present /\ tasks.rows[bead[p]].owner = p
               THEN /\ tasks' = [tasks EXCEPT !.rows[bead[p]].last_heartbeat = now]
                    /\ Step(p, "t_notify", "none", <<TaskOk("update", bead[p])>>)
               ELSE /\ UNCHANGED tasks
                    /\ Step(p, "done", "hb_error", <<TaskOk("update", bead[p])>>)
    /\ UNCHANGED <<claims, git, tracker, op, bead, flag, head_commit, pre, deps, now,
                   invoked, stale, priority, ready, session, hook, existing>>

\* heartbeat: the pending notifications are read.
HeartbeatNotifications(p) ==
    /\ pc[p] = "t_notify"
    /\ \/ Step(p, "done", "ok", <<TaskOk("select", "notifications")>>)
       \/ Step(p, "done", "err_task", <<TaskFault("select", "notifications")>>)
    /\ UNCHANGED <<claims, git, tracker, op, bead, flag, head_commit, pre, deps, now,
                   invoked, stale, ext>>

heartbeat(p) ==
    \/ HeartbeatUpdate(p)
    \/ HeartbeatNotifications(p)

\* update_workplan: SELECT 1 FROM tasks WHERE bead_id = ?1, unwrap_or(false)
WorkplanExists(p) ==
    /\ pc[p] = "t_exists"
    /\ \E o \in TaskSelected("select", bead[p]) :
          /\ existing' = [existing EXCEPT ![p] = o.row]
          /\ Step(p, IF o.row.found THEN "t_wupdate" ELSE "t_winsert", "none", o.entries)
    /\ UNCHANGED <<claims, git, tracker, op, bead, flag, head_commit, pre, deps, now,
                   invoked, stale, priority, ready, session, hook, tasks>>

\* update_workplan: INSERT INTO tasks (bead_id, owner, last_update) with the
\* caller as owner, when the SELECT found no row
WorkplanInsert(p) ==
    /\ pc[p] = "t_winsert"
    /\ IF ~tasks.table
       THEN /\ Step(p, "done", "err_task", <<NoSuchTable("insert", bead[p])>>)
            /\ UNCHANGED tasks
       ELSE \E o \in TaskInsert(bead[p], TaskRow(p, 0)) :
               /\ tasks' = o.tasks
               /\ Step(p, IF o.res = "Ok" THEN "t_wupdate" ELSE "done",
                       IF o.res = "Ok" THEN "none" ELSE "err_task",
                       <<Entry("insert", bead[p], o)>>)
    /\ UNCHANGED <<claims, git, tracker, op, bead, flag, head_commit, pre, deps, now,
                   invoked, stale, priority, ready, session, hook, existing>>

\* update_workplan: UPDATE tasks SET workplan, start_hash, last_update, and
\* the symbol links after it; no column of the model is written.
WorkplanUpdate(p) ==
    /\ pc[p] = "t_wupdate"
    /\ \/ Step(p, "done", "ok", <<TaskOk("update", bead[p])>>)
       \/ Step(p, "done", "err_task", <<TaskFault("update", bead[p])>>)
    /\ UNCHANGED <<claims, git, tracker, op, bead, flag, head_commit, pre, deps, now,
                   invoked, stale, ext>>

update_workplan(p) ==
    \/ WorkplanExists(p)
    \/ WorkplanInsert(p)
    \/ WorkplanUpdate(p)

\* ---------------------------------------------------------------- environment

\* The user edits the conflicted files in the main checkout and stages them.
UserResolves ==
    /\ Observed
    /\ mergeHead # NoBead
    /\ unresolved
    /\ unresolved' = FALSE
    /\ pre' = NoPre
    /\ UNCHANGED <<claims, worktrees, branches, merged, mergeHead, tracker, deps,
                   now, pc, op, bead, flag, head_commit, result, log, invoked, stale, ext>>

\* ---------------------------------------------------------------- specification

\* The priorities of the two beads are those of Priority; there is no session
\* file and no task row, and no process holds anything of a query, of a
\* stop-hook check or of a task command.
ExtIdle ==
    /\ priority = Priority
    /\ ready = [p \in Procs |-> <<>>]
    /\ session = NoSession
    /\ hook = [p \in Procs |-> NoHook]
    /\ tasks = NoTasks
    /\ existing = [p \in Procs |-> NoExisting]

Init ==
    /\ claims = {}
    /\ worktrees = {}
    /\ branches = {}
    /\ merged = {}
    /\ mergeHead = NoBead
    /\ unresolved = FALSE
    /\ tracker = [b \in Beads |-> "open"]
    /\ deps \in {{}, {<<"BEAD-2", "BEAD-1">>}}
    /\ now = 0
    /\ pc = [p \in Procs |-> "idle"]
    /\ op = [p \in Procs |-> "none"]
    /\ bead = [p \in Procs |-> NoBead]
    /\ flag = [p \in Procs |-> "-"]
    /\ head_commit = [p \in Procs |-> NoCommit]
    /\ result = [p \in Procs |-> "none"]
    /\ log = [p \in Procs |-> <<>>]
    /\ pre = NoPre
    /\ invoked = 0
    /\ stale = [p \in Procs |-> NoStale]
    /\ ExtIdle

Next ==
    \/ \E p \in Procs :
          \/ Start(p)
          \/ Return(p)
          \/ claim_task(p)
          \/ next_task(p)
          \/ release_bead(p)
          \/ abort_merge(p)
          \/ resolve_merge(p)
    \/ UserResolves

Spec == Init /\ [][Next]_vars

TypeOK ==
    /\ \A r \in claims : r.bead_id \in Beads /\ r.agent_id \in Procs
    /\ worktrees \subseteq Beads
    /\ branches \subseteq Beads
    /\ merged \subseteq Beads
    /\ mergeHead \in Beads \cup {NoBead}
    /\ unresolved \in BOOLEAN
    /\ \A b \in Beads : tracker[b] \in Statuses
    /\ \A p \in Procs : result[p] \in Structured \cup HardErrors \cup {"ok", "none"}
    /\ \A p \in Procs : (pc[p] = "done") = (result[p] # "none")
    /\ unresolved => mergeHead # NoBead

\* Two commands that claim, invoked at the same moment in a fresh workspace
\* whose beads are all ready.
InitRace ==
    /\ claims = {}
    /\ worktrees = {}
    /\ branches = {}
    /\ merged = {}
    /\ mergeHead = NoBead
    /\ unresolved = FALSE
    /\ tracker = [b \in Beads |-> "open"]
    /\ deps = {}
    /\ now = 0
    /\ op \in [Procs -> {"claim", "next"}]
    /\ bead \in [Procs -> Beads \cup {NoBead}]
    /\ flag \in [Procs -> {"force", "noforce", "-"}]
    /\ \A p \in Procs :
          /\ (op[p] = "next") = (bead[p] = NoBead)
          /\ (op[p] = "next") = (flag[p] = "-")
    /\ pc = [p \in Procs |-> FirstPc(op[p])]
    /\ head_commit = [p \in Procs |-> NoCommit]
    /\ result = [p \in Procs |-> "none"]
    /\ log = [p \in Procs |-> <<>>]
    /\ pre = [NoPre EXCEPT !.owner = Together]
    /\ invoked = Cardinality(Procs)
    /\ stale = [p \in Procs |-> NoStale]
    /\ ExtIdle

NextRace == \E p \in Procs : claim_task(p) \/ next_task(p)

SpecRace == InitRace /\ [][NextRace]_vars

\* The workspace after claim BEAD-1 by agent-a and claim BEAD-2 by agent-b
\* have both succeeded: the starting point of the release, abort and resolve
\* scenarios that involve two claimed beads.
Owner == [b \in Beads |-> IF b = "BEAD-1" THEN "agent-a" ELSE "agent-b"]

InitMerge ==
    /\ claims = {ClaimRow(b, Owner[b], {}, 0) : b \in Beads}
    /\ worktrees = Beads
    /\ branches = Beads
    /\ merged = {}
    /\ mergeHead = NoBead
    /\ unresolved = FALSE
    /\ tracker = [b \in Beads |-> "in_progress"]
    /\ deps \in {{}, {<<"BEAD-2", "BEAD-1">>}}
    /\ now = 0
    /\ pc = [p \in Procs |-> "idle"]
    /\ op = [p \in Procs |-> "none"]
    /\ bead = [p \in Procs |-> NoBead]
    /\ flag = [p \in Procs |-> "-"]
    /\ head_commit = [p \in Procs |-> NoCommit]
    /\ result = [p \in Procs |-> "none"]
    /\ log = [p \in Procs |-> <<>>]
    /\ pre = NoPre
    /\ invoked = 0
    /\ stale = [p \in Procs |-> NoStale]
    /\ ExtIdle

SpecMerge == InitMerge /\ [][Next]_vars

\* The claimed_at values and the clock readings tried: around the cutoffs the
\* values of Minutes give.
ClaimTimes == {MsPerMinute - 1, MsPerMinute, MsPerMinute + 1}
Clock == {2 * MsPerMinute, 2 * MsPerMinute + 1}

\* A workspace in which some beads are claimed, at various times; the
\* worktree of a claimed bead may be gone (a release whose tracker update
\* failed has removed it and kept the row).
InitStale ==
    /\ \E held \in SUBSET Beads : \E at \in [Beads -> ClaimTimes] :
          /\ claims = {ClaimRow(b, Owner[b], {}, at[b]) : b \in held}
          /\ worktrees \in SUBSET held
          /\ branches = worktrees
          /\ tracker = [b \in Beads |-> IF b \in held THEN "in_progress" ELSE "open"]
    /\ merged = {}
    /\ mergeHead = NoBead
    /\ unresolved = FALSE
    /\ deps = {}
    /\ now \in Clock
    /\ pc = [p \in Procs |-> "idle"]
    /\ op = [p \in Procs |-> "none"]
    /\ bead = [p \in Procs |-> NoBead]
    /\ flag = [p \in Procs |-> "-"]
    /\ head_commit = [p \in Procs |-> NoCommit]
    /\ result = [p \in Procs |-> "none"]
    /\ log = [p \in Procs |-> <<>>]
    /\ pre = NoPre
    /\ invoked = 0
    /\ stale = [p \in Procs |-> NoStale]
    /\ ExtIdle

NextStale == \E p \in Procs : StartStale(p) \/ find_stale(p) \/ Return(p)

SpecStale == InitStale /\ [][NextStale]_vars

\* Time passes between two commands: more than a minute.
Tick ==
    /\ \A q \in Procs : pc[q] \in {"idle", "crashed"}
    /\ now < MaxTicks * (MsPerMinute + 1)
    /\ now' = now + MsPerMinute + 1
    /\ UNCHANGED <<claims, git, tracker, deps, pc, op, bead, flag, head_commit, result,
                   log, pre, invoked, stale, ext>>

\* The process of a running command is killed between two of its calls: it
\* makes no further call and returns nothing.  What it had done stays on
\* record in op, bead and log.  The command killed is the first of the run.
Crash(p) ==
    /\ pc[p] \notin {"idle", "done", "crashed"}
    /\ invoked = 1
    /\ pc' = [pc EXCEPT ![p] = "crashed"]
    /\ pre' = NoPre
    /\ UNCHANGED <<claims, git, tracker, deps, now, op, bead, flag, head_commit, result,
                   log, invoked, stale, ext>>

\* The agent invokes a command while no other command runs.
StartAlone(p) ==
    /\ \A q \in Procs \ {p} : pc[q] \in {"idle", "crashed"}
    /\ Start(p)

\* Commands run one at a time, from a fresh workspace or from one with both
\* beads claimed, and time passes between them.
InitClock == Init \/ InitMerge

NextClock ==
    \/ \E p \in Procs :
          \/ StartAlone(p)
          \/ Return(p)
          \/ claim_task(p)
          \/ next_task(p)
          \/ release_bead(p)
          \/ abort_merge(p)
          \/ resolve_merge(p)
    \/ UserResolves
    \/ Tick

SpecClock == InitClock /\ [][NextClock]_vars

\* The threshold elapses after a command was killed.
TickAfterCrash ==
    /\ \E q \in Procs : pc[q] = "crashed"
    /\ Tick

\* An agent invokes a command while no command has been killed.
StartBeforeCrash(p) ==
    /\ \A q \in Procs : pc[q] # "crashed"
    /\ StartAlone(p)

\* An agent invokes stale after a command was killed.
StaleAfterCrash(p) ==
    /\ \E q \in Procs : pc[q] = "crashed"
    /\ StartStale(p)

\* Commands run one at a time, from a fresh workspace or from one with both
\* beads claimed; the first of them may be killed at any point, after which
\* time passes and only stale commands run.
InitRecovery == Init \/ InitMerge

NextRecovery ==
    \/ \E p \in Procs :
          \/ StartBeforeCrash(p)
          \/ StaleAfterCrash(p)
          \/ Return(p)
          \/ Crash(p)
          \/ claim_task(p)
          \/ next_task(p)
          \/ release_bead(p)
          \/ abort_merge(p)
          \/ resolve_merge(p)
          \/ find_stale(p)
    \/ UserResolves
    \/ TickAfterCrash

SpecRecovery == InitRecovery /\ [][NextRecovery]_vars

\* The values of issues.priority tried: the four the ORDER BY names and one it
\* does not.
Priorities == {"P0", "P1", "P2", "P3", "P4"}

\* The values of issues.status tried: those the engine writes, and done,
\* which the query accepts of a blocker.
TrackerStatuses == Statuses \cup {"done"}

\* A tracker in any state: every status and priority of the two beads, every
\* set of dependencies between them; both agents query it.
InitReady ==
    /\ claims = {}
    /\ worktrees = {}
    /\ branches = {}
    /\ merged = {}
    /\ mergeHead = NoBead
    /\ unresolved = FALSE
    /\ tracker \in [Beads -> TrackerStatuses]
    /\ deps \in SUBSET (Beads \X Beads)
    /\ now = 0
    /\ pc = [p \in Procs |-> "idle"]
    /\ op = [p \in Procs |-> "none"]
    /\ bead = [p \in Procs |-> NoBead]
    /\ flag = [p \in Procs |-> "-"]
    /\ head_commit = [p \in Procs |-> NoCommit]
    /\ result = [p \in Procs |-> "none"]
    /\ log = [p \in Procs |-> <<>>]
    /\ pre = NoPre
    /\ invoked = 0
    /\ stale = [p \in Procs |-> NoStale]
    /\ priority \in [Beads -> Priorities]
    /\ ready = [p \in Procs |-> <<>>]
    /\ session = NoSession
    /\ hook = [p \in Procs |-> NoHook]
    /\ tasks = NoTasks
    /\ existing = [p \in Procs |-> NoExisting]

NextReady == \E p \in Procs : GetReadyBeads(p)

SpecReady == InitReady /\ [][NextReady]_vars

\* The session files tried: none, an unparsable one, one of an unknown mode,
\* and those start_session writes.
SessionFiles ==
    {NoSession, InvalidSession, Session("bogus", NoBead, 0)}
    \cup {Session("agent", b, 0) : b \in Beads \cup {NoBead, UnknownBead}}
    \cup {Session("orchestrator", NoBead, max) : max \in MaxConcurrents}

\* A workspace in which some beads are claimed and the tracker is in any
\* state the engine writes, with any session file; session commands run one
\* at a time.
InitSession ==
    /\ \E held \in SUBSET Beads :
          /\ claims = {ClaimRow(b, Owner[b], {}, 0) : b \in held}
          /\ worktrees = held
          /\ branches = held
    /\ merged = {}
    /\ mergeHead = NoBead
    /\ unresolved = FALSE
    /\ tracker \in [Beads -> Statuses]
    /\ deps \in {{}, {<<"BEAD-2", "BEAD-1">>}}
    /\ now = 0
    /\ pc = [p \in Procs |-> "idle"]
    /\ op = [p \in Procs |-> "none"]
    /\ bead = [p \in Procs |-> NoBead]
    /\ flag = [p \in Procs |-> "-"]
    /\ head_commit = [p \in Procs |-> NoCommit]
    /\ result = [p \in Procs |-> "none"]
    /\ log = [p \in Procs |-> <<>>]
    /\ pre = NoPre
    /\ invoked = 0
    /\ stale = [p \in Procs |-> NoStale]
    /\ priority = Priority
    /\ ready = [p \in Procs |-> <<>>]
    /\ session \in SessionFiles
    /\ hook = [p \in Procs |-> NoHook]
    /\ tasks = NoTasks
    /\ existing = [p \in Procs |-> NoExisting]

NextSession ==
    \E p \in Procs :
       \/ StartSessionCommand(p)
       \/ SessionWrite(p)
       \/ SessionStop(p)
       \/ check_session(p)
       \/ Return(p)

SpecSession == InitSession /\ [][NextSession]_vars

\* The rows a task can have: none, unowned after a release, owned.
TaskRows == {NoTask, TaskRow(NoOwner, 0)} \cup {TaskRow(a, 0) : a \in Procs}

\* The database either as init_db leaves it, without table tasks, or at
\* schema version 2, with table tasks holding any rows for the beads.
InitTasks ==
    /\ claims = {}
    /\ worktrees = {}
    /\ branches = {}
    /\ merged = {}
    /\ mergeHead = NoBead
    /\ unresolved = FALSE
    /\ tracker = [b \in Beads |-> "open"]
    /\ deps = {}
    /\ now = 0
    /\ pc = [p \in Procs |-> "idle"]
    /\ op = [p \in Procs |-> "none"]
    /\ bead = [p \in Procs |-> NoBead]
    /\ flag = [p \in Procs |-> "-"]
    /\ head_commit = [p \in Procs |-> NoCommit]
    /\ result = [p \in Procs |-> "none"]
    /\ log = [p \in Procs |-> <<>>]
    /\ pre = NoPre
    /\ invoked = 0
    /\ stale = [p \in Procs |-> NoStale]
    /\ priority = Priority
    /\ ready = [p \in Procs |-> <<>>]
    /\ session = NoSession
    /\ hook = [p \in Procs |-> NoHook]
    /\ \/ tasks = NoTasks
       \/ \E rows \in [Beads -> TaskRows] :
             tasks = [table |-> TRUE,
                      rows |-> [t \in TaskIds |-> IF t \in Beads THEN rows[t] ELSE NoTask]]
    /\ existing = [p \in Procs |-> NoExisting]

NextTasks ==
    \/ Tick
    \/ \E p \in Procs :
          \/ StartTask(p)
          \/ claim_task_rows(p)
          \/ release_task(p)
          \/ heartbeat(p)
          \/ update_workplan(p)
          \/ Return(p)

SpecTasks == InitTasks /\ [][NextTasks]_vars

\* ---------------------------------------------------------------- properties

RowsOf(b) == {r \in claims : r.bead_id = b}

E(call, arg, res) == [call |-> call, arg |-> arg, res |-> res]

HasEntry(p, call, res) ==
    \E i \in DOMAIN log[p] : log[p][i].call = call /\ log[p][i].res = res

NoFault(p) == \A i \in DOMAIN log[p] : log[p][i].res # "fault"

AllOk(p) == \A i \in DOMAIN log[p] : log[p][i].res = "ok"

Faults(p) == Cardinality({i \in DOMAIN log[p] : log[p][i].res = "fault"})

\* Command o of process p has returned, and no other command ran while it did:
\* pre is the state it was invoked in.
Finished(p, o) == pc[p] = "done" /\ op[p] = o /\ pre.owner = p

ClaimedBefore(b) == \E r \in pre.claims : r.bead_id = b

\* The claims table, the worktrees and branches and the tracker are as they
\* were when the command was invoked.
NothingChanged ==
    /\ claims = pre.claims
    /\ worktrees = pre.wts
    /\ branches = pre.brs
    /\ tracker = pre.tracker

AtMostOneRow == \A b \in Beads : Cardinality(RowsOf(b)) <= 1

RaceOver(b) ==
    \A p \in Procs : pc[p] = "done" /\ bead[p] = b /\ NoFault(p)

Winners == {p \in Procs : result[p] = "ok"}

\* C2: two claims of the same bead invoked together, no failure injected:
\* under every interleaving exactly one returns success, and then the bead
\* has exactly one claim row, the winner's, and exactly one worktree.
C2_ExactlyOneWinner ==
    \A b \in Beads :
       (RaceOver(b) /\ \A p \in Procs : op[p] = "claim")
       => /\ Cardinality(Winners) = 1
          /\ Cardinality(RowsOf(b)) = 1
          /\ \A r \in RowsOf(b) : r.agent_id \in Winners
          /\ worktrees = {b}
          /\ branches = {b}

\* Both claims passed the claim-row check, and one of them won.
C2_Witness ==
    \E b \in Beads :
       /\ RaceOver(b)
       /\ \A p \in Procs : op[p] = "claim" /\ log[p] # <<>>
       /\ Cardinality(Winners) = 1

\* C3: the loser of a race for a bead returns the structured "already
\* claimed" result, never a hard error; stated for the case the claim singles
\* out, a loser that had passed the claim-row check before the winner's row
\* was written and so went on to create its worktree.
C3_LoserAlreadyClaimed ==
    \A b \in Beads :
       RaceOver(b) =>
          \A p \in Procs :
             (result[p] # "ok" /\ log[p] # <<>>) => result[p] = "already_claimed"

\* C4: claim's tracker update fails after the worktree and the row were
\* created: claim returns an error, and (nothing else failing) the bead has no
\* row, no worktree and no branch, as before the call.
C4_ClaimAtomic ==
    \A p \in Procs :
       (Finished(p, "claim") /\ HasEntry(p, "update_bead_status", "fault"))
       => /\ result[p] = "err_tracker"
          /\ HasEntry(p, "create_worktree", "ok") /\ HasEntry(p, "insert", "ok")
          /\ Faults(p) = 1 =>
                /\ ~ClaimExists(bead[p])
                /\ bead[p] \notin worktrees
                /\ bead[p] \notin branches
                /\ NothingChanged

C4_Witness ==
    \E p \in Procs :
       /\ Finished(p, "claim")
       /\ HasEntry(p, "update_bead_status", "fault")
       /\ Faults(p) = 1
       /\ pre.claims # {}

\* C5: claim's insert fails after the worktree was created: claim removes the
\* worktree and the branch with force, returns the insert error and never
\* calls the tracker; (the removal not failing) no worktree is left behind.
C5_InsertRollback ==
    \A p \in Procs :
       (/\ Finished(p, "claim")
        /\ \E i \in DOMAIN log[p] : log[p][i].call = "insert" /\ log[p][i].res # "ok")
       => /\ result[p] = "err_insert"
          /\ Len(log[p]) = 3
          /\ log[p][1] = E("create_worktree", "-", "ok")
          /\ log[p][2].call = "insert"
          /\ log[p][3].call = "remove_worktree" /\ log[p][3].arg = "force"
          /\ tracker = pre.tracker
          /\ log[p][3].res = "ok" =>
                /\ bead[p] \notin worktrees
                /\ bead[p] \notin branches
                /\ NothingChanged

C5_Witness ==
    \E p \in Procs :
       /\ Finished(p, "claim")
       /\ result[p] = "err_insert"
       /\ log[p][3].res = "ok"
       /\ worktrees # {}

\* C6: a next whose insert or whose tracker update fails leaves no claim
\* row, no worktree and no branch for the bead it selected.
C6_NextCompensates ==
    \A p \in Procs :
       (/\ Finished(p, "next")
        /\ HasEntry(p, "insert", "fault") \/ HasEntry(p, "update_bead_status", "fault"))
       => /\ ~ClaimExists(bead[p])
          /\ bead[p] \notin worktrees
          /\ bead[p] \notin branches

\* The calls of claim come in the order create_worktree, insert,
\* update_bead_status, each made only after the one before it succeeded.
ClaimOrder(L) ==
    \A i \in DOMAIN L :
       /\ L[i].call = "create_worktree" => i = 1
       /\ L[i].call = "insert" => i = 2 /\ L[1] = E("create_worktree", "-", "ok")
       /\ L[i].call = "update_bead_status" =>
             i = 3 /\ L[2] = E("insert", "-", "ok") /\ L[i].arg = "in_progress"

\* C7: in every execution of claim the worktree is created before the row is
\* inserted and the row is inserted before the tracker is updated; no insert
\* follows a failed creation and no tracker update follows a failed insert.
C7_ClaimOrdering ==
    \A p \in Procs :
       op[p] = "claim" =>
          /\ ClaimOrder(log[p])
          /\ (pc[p] = "done" /\ result[p] = "ok") =>
                log[p] = <<E("create_worktree", "-", "ok"), E("insert", "-", "ok"),
                           E("update_bead_status", "in_progress", "ok")>>

C7_Witness ==
    \E p \in Procs : op[p] = "claim" /\ pc[p] = "done" /\ result[p] = "ok"

\* C8: release(done) runs into a merge conflict: it returns success = false,
\* merged = false; the claim row, the worktree, the branch and the tracker
\* status are as before, and the repository reports a merge in progress.
C8_ConflictKeepsClaim ==
    \A p \in Procs :
       (/\ Finished(p, "release")
        /\ flag[p] = "done"
        /\ HasEntry(p, "merge_worktree", "conflict"))
       => /\ result[p] = "conflict"
          /\ NothingChanged
          /\ ClaimExists(bead[p])
          /\ bead[p] \in branches
          /\ merged = pre.mrg
          /\ is_in_merge_conflict
          /\ mergeHead = bead[p]

C8_Witness ==
    \E p \in Procs :
       /\ Finished(p, "release")
       /\ flag[p] = "done"
       /\ HasEntry(p, "merge_worktree", "conflict")
       /\ bead[p] \in worktrees

\* C9: release(done) on a claimed bead, the merge clean and no call failing:
\* it returns success with merged = true, having merged, then removed the
\* worktree and branch (not forced), then set the tracker to closed, then
\* deleted the claim row.
C9_ReleaseDone ==
    \A p \in Procs :
       (/\ Finished(p, "release")
        /\ flag[p] = "done"
        /\ ClaimedBefore(bead[p])
        /\ AllOk(p))
       => /\ result[p] = "ok"
          /\ log[p] = <<E("merge_worktree", "main", "ok"),
                        E("remove_worktree", "-", "ok"),
                        E("update_bead_status", "closed", "ok"),
                        E("delete", "-", "ok")>>
          /\ bead[p] \in merged
          /\ bead[p] \notin worktrees
          /\ bead[p] \notin branches
          /\ tracker[bead[p]] = "closed"
          /\ ~ClaimExists(bead[p])

C9_Witness ==
    \E p \in Procs :
       /\ Finished(p, "release")
       /\ flag[p] = "done"
       /\ ClaimedBefore(bead[p])
       /\ AllOk(p)
       /\ bead[p] \in pre.wts

\* C10: release(failed) on a claimed bead, no call failing: the worktree and
\* the branch are removed with force, the tracker status is open, the claim
\* row is deleted, and nothing is merged.
C10_ReleaseFailed ==
    \A p \in Procs :
       (/\ Finished(p, "release")
        /\ flag[p] = "failed"
        /\ ClaimedBefore(bead[p])
        /\ AllOk(p))
       => /\ result[p] = "ok"
          /\ log[p] = <<E("remove_worktree", "force", "ok"),
                        E("update_bead_status", "open", "ok"),
                        E("delete", "-", "ok")>>
          /\ bead[p] \notin worktrees
          /\ bead[p] \notin branches
          /\ tracker[bead[p]] = "open"
          /\ ~ClaimExists(bead[p])
          /\ merged = pre.mrg
          /\ mergeHead = pre.mh

C10_Witness ==
    \E p \in Procs :
       /\ Finished(p, "release")
       /\ flag[p] = "failed"
       /\ ClaimedBefore(bead[p])
       /\ AllOk(p)
       /\ bead[p] \in pre.wts
       /\ bead[p] \notin merged

\* The repository, too, is as it was when the command was invoked.
AllUnchanged ==
    /\ NothingChanged
    /\ merged = pre.mrg
    /\ mergeHead = pre.mh
    /\ unresolved = pre.unres

\* C11: release(blocked) on a claimed bead, no call failing: it sets the
\* tracker status to blocked and deletes the claim row, and these are its only
\* calls: worktrees, branches and the merge state are as before.
C11_ReleaseBlocked ==
    \A p \in Procs :
       (/\ Finished(p, "release")
        /\ flag[p] = "blocked"
        /\ ClaimedBefore(bead[p])
        /\ AllOk(p))
       => /\ result[p] = "ok"
          /\ log[p] = <<E("update_bead_status", "blocked", "ok"), E("delete", "-", "ok")>>
          /\ worktrees = pre.wts
          /\ branches = pre.brs
          /\ merged = pre.mrg
          /\ mergeHead = pre.mh
          /\ unresolved = pre.unres
          /\ tracker = [pre.tracker EXCEPT ![bead[p]] = "blocked"]
          /\ claims = {r \in pre.claims : r.bead_id # bead[p]}

C11_Witness ==
    \E p \in Procs :
       /\ Finished(p, "release")
       /\ flag[p] = "blocked"
       /\ ClaimedBefore(bead[p])
       /\ AllOk(p)
       /\ bead[p] \in worktrees
       /\ bead[p] \in branches
       /\ bead[p] \notin merged

\* C12: release on a bead without a claim row (whatever the status), and
\* release on a claimed bead with a status other than done, blocked, failed,
\* return success = false, make no call and change nothing.
C12_ReleaseGuards ==
    \A p \in Procs :
       Finished(p, "release") =>
          /\ ~ClaimedBefore(bead[p]) =>
                result[p] = "no_claim" /\ log[p] = <<>> /\ AllUnchanged
          /\ (ClaimedBefore(bead[p]) /\ flag[p] = "invalid") =>
                result[p] = "invalid_status" /\ log[p] = <<>> /\ AllUnchanged

C12_Witness ==
    \E p \in Procs :
       /\ Finished(p, "release")
       /\ ClaimedBefore(bead[p])
       /\ flag[p] = "invalid"
       /\ bead[p] \in worktrees

\* The other case of C12: no claim row, a valid status, a worktree on disk.
C12_WitnessNoClaim ==
    \E p \in Procs :
       /\ Finished(p, "release")
       /\ ~ClaimedBefore(bead[p])
       /\ flag[p] = "done"
       /\ bead[p] \in worktrees

\* C13: a successful abort, the merge in progress having been started by
\* release(done) of the same bead: afterwards no merge is in progress, the
\* claims table (the bead's row with it), the worktrees, the branches, the
\* tracker and the merged set are as before; abort's only mutating call was git
\* merge --abort, and merge_worktree on the bead no longer refuses.
C13_AbortRestores ==
    \A p \in Procs :
       (Finished(p, "abort") /\ result[p] = "ok")
       => /\ pre.mh # NoBead
          /\ ~is_in_merge_conflict
          /\ ~has_unresolved_conflicts
          /\ NothingChanged
          /\ merged = pre.mrg
          /\ ClaimExists(bead[p])
          /\ \A i \in DOMAIN log[p] :
                log[p][i].call = "abort_merge" \/ log[p][i] = ReadFault("get_merge_branch")
          /\ bead[p] \in branches =>
                \E o \in merge_worktree(bead[p]) : o.res = "Ok"

C13_Witness ==
    \E p \in Procs :
       /\ Finished(p, "abort")
       /\ result[p] = "ok"
       /\ pre.mh = bead[p]
       /\ pre.unres
       /\ bead[p] \in worktrees
       /\ bead[p] \in branches
       /\ tracker[bead[p]] = "in_progress"

\* Process p ran abort or resolve for a claimed bead while the merge in
\* progress was of another bead's branch.
OtherBeadsMerge(p) ==
    /\ Finished(p, "abort") \/ Finished(p, "resolve")
    /\ ClaimedBefore(bead[p])
    /\ pre.mh # NoBead
    /\ pre.mh # bead[p]

\* C14: abort and resolve of a claimed bead, invoked while a merge of another
\* bead's branch is in progress, return success = false and change nothing,
\* also when the branch being merged could not be determined.
C14_CrossBeadGuard ==
    \A p \in Procs :
       OtherBeadsMerge(p) => result[p] \in Structured /\ AllUnchanged

\* What holds of the guard: it refuses whenever get_merge_branch names the
\* branch being merged.
CrossBeadGuardWhenNamed ==
    \A p \in Procs :
       (OtherBeadsMerge(p) /\ ~HasEntry(p, "get_merge_branch", "fault"))
       => result[p] = "wrong_bead" /\ AllUnchanged /\ log[p] = <<>>

\* C15: abort and resolve on a bead without a claim row, and on a claimed
\* bead while no merge is in progress, return success = false (no hard
\* error), make no call and change nothing.
C15_AbortResolveGuards ==
    \A p \in Procs :
       (Finished(p, "abort") \/ Finished(p, "resolve")) =>
          /\ ~ClaimedBefore(bead[p]) =>
                result[p] = "no_claim" /\ log[p] = <<>> /\ AllUnchanged
          /\ (ClaimedBefore(bead[p]) /\ pre.mh = NoBead) =>
                result[p] = "not_in_merge" /\ log[p] = <<>> /\ AllUnchanged

C15_Witness ==
    \E p \in Procs :
       /\ Finished(p, "resolve")
       /\ ClaimedBefore(bead[p])
       /\ pre.mh = NoBead
       /\ bead[p] \in worktrees
       /\ tracker[bead[p]] = "in_progress"

\* The other case of C15: abort on a bead that has no claim row while a merge
\* is in progress.
C15_WitnessNoClaim ==
    \E p \in Procs :
       /\ Finished(p, "abort")
       /\ ~ClaimedBefore(bead[p])
       /\ pre.mh # NoBead

\* C16: resolve on a claimed bead while unmerged paths remain changes
\* nothing, and when the merge in progress is the bead's own it returns the
\* unresolved-conflicts result: the merge is not committed, the row not
\* deleted, the worktree and branch not removed, the tracker not changed.
C16_ResolveNeedsCleanIndex ==
    \A p \in Procs :
       (Finished(p, "resolve") /\ ClaimedBefore(bead[p]) /\ pre.unres)
       => /\ AllUnchanged
          /\ is_in_merge_conflict
          /\ result[p] \in {"unresolved", "wrong_bead"}
          /\ pre.mh = bead[p] => result[p] = "unresolved"
          /\ ~HasEntry(p, "complete_merge", "ok")

C16_Witness ==
    \E p \in Procs :
       /\ Finished(p, "resolve")
       /\ ClaimedBefore(bead[p])
       /\ pre.unres
       /\ pre.mh = bead[p]
       /\ result[p] = "unresolved"
       /\ bead[p] \in worktrees

\* C17: resolve on a claimed bead whose branch is the one being merged, no
\* unmerged path left and no call failing: it commits the merge, then removes
\* the worktree and branch (not forced), then sets the tracker to closed, then
\* deletes the claim row, and returns success; no merge is in progress then.
C17_ResolveCompletes ==
    \A p \in Procs :
       (/\ Finished(p, "resolve")
        /\ ClaimedBefore(bead[p])
        /\ pre.mh = bead[p]
        /\ ~pre.unres
        /\ AllOk(p))
       => /\ result[p] = "ok"
          /\ log[p] = <<E("complete_merge", "-", "ok"),
                        E("remove_worktree", "-", "ok"),
                        E("update_bead_status", "closed", "ok"),
                        E("delete", "-", "ok")>>
          /\ ~is_in_merge_conflict
          /\ bead[p] \in merged
          /\ bead[p] \notin worktrees
          /\ bead[p] \notin branches
          /\ tracker[bead[p]] = "closed"
          /\ ~ClaimExists(bead[p])

C17_Witness ==
    \E p \in Procs :
       /\ Finished(p, "resolve")
       /\ ClaimedBefore(bead[p])
       /\ pre.mh = bead[p]
       /\ ~pre.unres
       /\ AllOk(p)
       /\ bead[p] \in pre.wts
       /\ bead[p] \notin pre.mrg

\* The rows a stale command listed, and their beads
Listed(p) == {stale[p].stale_claims[i] : i \in DOMAIN stale[p].stale_claims}

ListedBeads(p) == {s.bead_id : s \in Listed(p)}

\* The cutoff of the stale command of p: now - minutes * 60000
Cutoff(p) == now - stale[p].minutes * MsPerMinute

\* C18: a stale command that returned normally lists exactly the claims with
\* claimed_at < now - minutes*60000, once each and with the fields of the row:
\* a claim one millisecond older than the cutoff is listed, a claim exactly at
\* the cutoff and a claim one millisecond newer are not.
C18_StaleBoundary ==
    \A p \in Procs :
       (Finished(p, "stale") /\ result[p] = "ok") =>
          /\ ListedBeads(p) = {r.bead_id : r \in {x \in pre.claims : x.claimed_at < Cutoff(p)}}
          /\ Len(stale[p].stale_claims) = Cardinality(ListedBeads(p))
          /\ \A r \in pre.claims :
                /\ r.claimed_at = Cutoff(p) - 1 => r.bead_id \in ListedBeads(p)
                /\ r.claimed_at = Cutoff(p) => r.bead_id \notin ListedBeads(p)
                /\ r.claimed_at = Cutoff(p) + 1 => r.bead_id \notin ListedBeads(p)
          /\ \A s \in Listed(p) : \E r \in pre.claims :
                /\ s.bead_id = r.bead_id /\ s.agent_id = r.agent_id
                /\ s.worktree_path = r.worktree_path /\ s.claimed_at = r.claimed_at
                /\ s.age_minutes * MsPerMinute <= now - r.claimed_at
                /\ now - r.claimed_at < (s.age_minutes + 1) * MsPerMinute

\* A stale command with a threshold of one minute returned the claim made one
\* millisecond before the cutoff and not the claim made one millisecond after.
C18_Witness ==
    \E p \in Procs :
       /\ Finished(p, "stale") /\ result[p] = "ok" /\ stale[p].minutes = 1
       /\ \E r1, r2 \in pre.claims :
             /\ r1.claimed_at = Cutoff(p) - 1
             /\ r2.claimed_at = Cutoff(p) + 1
             /\ ListedBeads(p) = {r1.bead_id}

\* A stale command returned while a claim made exactly at its cutoff exists.
C18_WitnessAtCutoff ==
    \E p \in Procs :
       /\ Finished(p, "stale") /\ result[p] = "ok" /\ stale[p].minutes = 1
       /\ \E r \in pre.claims : r.claimed_at = Cutoff(p) /\ r.bead_id \notin ListedBeads(p)

\* C19: a stale command without --cleanup is read-only: it calls nothing that
\* changes state, the claims table, the worktrees, the branches, the merge
\* state and the tracker are as they were, and when it returns normally it
\* returns the stale claims with an empty cleaned_up.
C19_StaleReadOnly ==
    \A p \in Procs :
       (Finished(p, "stale") /\ ~stale[p].cleanup) =>
          /\ AllUnchanged
          /\ \A i \in DOMAIN log[p] : log[p][i] = ReadFault("select")
          /\ result[p] \in {"ok", "err_query"}
          /\ result[p] = "ok" =>
                /\ log[p] = <<>>
                /\ stale[p].cleaned_up = <<>>
                /\ ListedBeads(p) = {r.bead_id : r \in {x \in claims : x.claimed_at < Cutoff(p)}}

\* A stale command without --cleanup returned a stale claim whose worktree
\* exists.
C19_Witness ==
    \E p \in Procs :
       /\ Finished(p, "stale") /\ ~stale[p].cleanup /\ result[p] = "ok"
       /\ \E b \in ListedBeads(p) : b \in worktrees /\ ClaimExists(b)

\* The result of the k-th call (1 removal, 2 tracker update, 3 DELETE) the
\* cleanup made for the i-th listed claim
CallRes(p, i, k) == log[p][3 * (i - 1) + k].res

\* C20: a stale command with --cleanup whose query succeeded returns normally
\* whatever its calls return. For every listed claim, in the order listed, it
\* calls remove_worktree, update_bead_status(open) and the DELETE, and reports
\* the bead in cleaned_up; each of these calls that succeeds has its effect
\* whatever the calls for the other claims returned; the claims that are not
\* listed keep their rows, worktrees, branches and tracker statuses.
C20_StaleBatch ==
    \A p \in Procs :
       (Finished(p, "stale") /\ stale[p].cleanup /\ result[p] # "err_query") =>
          LET n == Len(stale[p].stale_claims)
              b(i) == stale[p].stale_claims[i].bead_id
          IN /\ result[p] = "ok"
             /\ ListedBeads(p) =
                   {r.bead_id : r \in {x \in pre.claims : x.claimed_at < Cutoff(p)}}
             /\ stale[p].cleaned_up = [i \in 1..n |-> b(i)]
             /\ Len(log[p]) = 3 * n
             /\ \A i \in 1..n :
                   /\ log[p][3 * (i - 1) + 1].call = "remove_worktree"
                   /\ log[p][3 * (i - 1) + 2].call = "update_bead_status"
                   /\ log[p][3 * (i - 1) + 3].call = "delete"
                   /\ \A k \in 1..3 : log[p][3 * (i - 1) + k].arg = b(i)
                   /\ CallRes(p, i, 1) = "ok" => b(i) \notin worktrees /\ b(i) \notin branches
                   /\ CallRes(p, i, 2) = "ok" => tracker[b(i)] = "open"
                   /\ CallRes(p, i, 3) = "ok" => ~ClaimExists(b(i))
             /\ \A c \in Beads \ ListedBeads(p) :
                   /\ RowsOf(c) = {r \in pre.claims : r.bead_id = c}
                   /\ c \in worktrees <=> c \in pre.wts
                   /\ c \in branches <=> c \in pre.brs
                   /\ tracker[c] = pre.tracker[c]
             /\ merged = pre.mrg /\ mergeHead = pre.mh /\ unresolved = pre.unres

\* Two stale claims with worktrees: the removal and the tracker update failed
\* for the first, and the second was cleaned all the same.
C20_Witness ==
    \E p \in Procs :
       /\ Finished(p, "stale") /\ stale[p].cleanup /\ result[p] = "ok"
       /\ Len(stale[p].stale_claims) = 2
       /\ pre.wts = Beads
       /\ CallRes(p, 1, 1) = "fault" /\ CallRes(p, 1, 2) = "fault"
       /\ stale[p].stale_claims[1].bead_id \in worktrees
       /\ LET c == stale[p].stale_claims[2].bead_id
          IN c \notin worktrees /\ c \notin branches /\ tracker[c] = "open" /\ ~ClaimExists(c)

\* A stale claim was cleaned beside a claim younger than the threshold, whose
\* row, worktree and tracker status are still there.
C20_WitnessYoung ==
    \E p \in Procs :
       /\ Finished(p, "stale") /\ stale[p].cleanup /\ result[p] = "ok"
       /\ Len(stale[p].stale_claims) = 1
       /\ ~ClaimExists(stale[p].stale_claims[1].bead_id)
       /\ \E c \in Beads \ ListedBeads(p) :
             ClaimExists(c) /\ c \in worktrees /\ tracker[c] = "in_progress"

\* Bead b is unclaimed, available work: no claim row, no worktree, no branch,
\* tracker status open.
Reclaimed(b) ==
    /\ ~ClaimExists(b)
    /\ b \notin worktrees
    /\ b \notin branches
    /\ tracker[b] = "open"

C22_NoGhostClaim ==
    \A b \in Beads : tracker[b] = "in_progress" => ClaimExists(b)

\* The orders the claim relies on: a command that has set a tracker status to
\* in_progress inserted the row before, and a command that has deleted a row
\* called the tracker update before.
TrackerOrder ==
    \A p \in Procs : \A i \in DOMAIN log[p] :
       /\ (log[p][i].call = "update_bead_status" /\ op[p] \in {"claim", "next"}) =>
             \E j \in 1..(i - 1) : log[p][j].call = "insert" /\ log[p][j].res = "ok"
       /\ (log[p][i].call = "delete" /\ op[p] \in {"release", "resolve", "stale"}) =>
             \E j \in 1..(i - 1) : log[p][j].call = "update_bead_status"

\* No command is in progress: every command invoked has returned.
Quiescent == \A p \in Procs : Idle(p)

\* The claim row, the worktree and the branch of bead b exist together or
\* not at all.
Together3(b) == (ClaimExists(b) <=> b \in worktrees) /\ (b \in worktrees <=> b \in branches)

\* C23: in every state in which no command is in progress, every bead has a
\* claim row iff its worktree exists iff its branch exists.
C23_ClaimIffWorktreeIffBranch ==
    Quiescent => \A b \in Beads : Together3(b)

\* C23 without any failure: a release whose calls all succeeded, invoked in a
\* state where the three exist together for every bead, leaves such a state.
C23_ReleaseKeepsTogether ==
    \A p \in Procs :
       (/\ Finished(p, "release") /\ AllOk(p)
        /\ \A b \in Beads :
              /\ (\E r \in pre.claims : r.bead_id = b) <=> b \in pre.wts
              /\ b \in pre.wts <=> b \in pre.brs)
       => \A b \in Beads : Together3(b)

\* C24: in every state no two claim rows have the same bead_id or the same
\* worktree_path, and every row's worktree_path and branch_name are the ones
\* derived from its bead_id.
C24_UniqueDerived ==
    /\ \A r1, r2 \in claims :
          (r1.bead_id = r2.bead_id \/ r1.worktree_path = r2.worktree_path) => r1 = r2
    /\ \A r \in claims :
          /\ r.worktree_path = WorktreePath(r.bead_id)
          /\ r.branch_name = BranchName(r.bead_id)

\* An INSERT for a bead that has a row was attempted and refused by the key,
\* and the bead still has its one row.
C24_Witness ==
    \E p \in Procs :
       /\ HasEntry(p, "insert", "fail")
       /\ Cardinality(RowsOf(bead[p])) = 1
       /\ \A r \in RowsOf(bead[p]) : r.agent_id # p

\* The ready beads without a claim row in the state the command was invoked in
UnclaimedReadyBefore ==
    {b \in Beads :
        /\ pre.tracker[b] = "open"
        /\ ~\E d \in deps : d[1] = b /\ pre.tracker[d[2]] \notin {"done", "closed"}
        /\ ~ClaimedBefore(b)}

\* C25: a next invoked while some ready bead has no claim row, none of its
\* calls failing, succeeds and claims the first such bead in priority-then-id
\* order.
C25_NextSkipsClaimed ==
    \A p \in Procs :
       (Finished(p, "next") /\ AllOk(p) /\ UnclaimedReadyBefore # {}) =>
          /\ result[p] = "ok"
          /\ bead[p] \in UnclaimedReadyBefore
          /\ \A c \in UnclaimedReadyBefore \ {bead[p]} : Before(bead[p], c)
          /\ \E r \in claims : r.bead_id = bead[p] /\ r.agent_id = p

\* What the code does instead: next looks at the head of the ready list only,
\* and returns "already claimed" when that bead has a claim row.
NextLooksAtHeadOnly ==
    \A p \in Procs :
       (Finished(p, "next") /\ AllOk(p) /\ result[p] # "no_ready") =>
          /\ pre.tracker[bead[p]] = "open"
          /\ \A c \in Beads \ {bead[p]} :
                (pre.tracker[c] = "open"
                 /\ ~\E d \in deps : d[1] = c /\ pre.tracker[d[2]] \notin {"done", "closed"})
                => Before(bead[p], c)
          /\ ClaimedBefore(bead[p]) => result[p] = "already_claimed" /\ NothingChanged

\* The ready beads in the state the command was invoked in
ReadyBefore ==
    {b \in Beads :
        /\ pre.tracker[b] = "open"
        /\ ~\E d \in deps : d[1] = b /\ pre.tracker[d[2]] \notin {"done", "closed"}}

\* C26: a next invoked while the tracker has no ready bead, the tracker query
\* succeeding, returns the no-ready-work result without a bead id and makes
\* no call: worktrees, branches, claim rows and tracker statuses are as before.
C26_NextNoReadyWork ==
    \A p \in Procs :
       (Finished(p, "next") /\ ReadyBefore = {} /\ NoFault(p)) =>
          /\ result[p] = "no_ready"
          /\ bead[p] = NoBead
          /\ log[p] = <<>>
          /\ AllUnchanged

\* next returned no ready work while one bead is claimed and in progress and
\* the other, unclaimed, waits for it.
C26_Witness ==
    \E p \in Procs :
       /\ Finished(p, "next") /\ result[p] = "no_ready"
       /\ \E b \in Beads : ClaimExists(b) /\ tracker[b] = "in_progress"
       /\ \E b \in Beads : ~ClaimExists(b) /\ tracker[b] = "open"

\* C27: claim eligibility. A claim of a closed bead never succeeds, forced or
\* not; an unforced claim succeeds only on a bead that was ready; a forced
\* claim of a bead that is not closed goes past the readiness check and is
\* still refused when the bead has a claim row; a rejected claim makes no call
\* and changes neither claims nor worktrees, branches or tracker.
C27_ClaimEligibility ==
    \A p \in Procs :
       Finished(p, "claim") =>
          /\ pre.tracker[bead[p]] = "closed" =>
                result[p] \in {"closed", "err_get_bead"}
          /\ (flag[p] = "noforce" /\ result[p] = "ok") =>
                bead[p] \in ReadyBefore /\ ~ClaimedBefore(bead[p])
          /\ (flag[p] = "noforce" /\ bead[p] \notin ReadyBefore /\ NoFault(p)) =>
                result[p] \in {"closed", "not_ready"}
          /\ (flag[p] = "force" /\ pre.tracker[bead[p]] # "closed" /\ NoFault(p)) =>
                /\ result[p] # "not_ready"
                /\ ClaimedBefore(bead[p]) => result[p] = "already_claimed"
                /\ (~ClaimedBefore(bead[p]) /\ AllOk(p)) => result[p] = "ok"
          /\ result[p] \in {"closed", "not_ready", "already_claimed"} =>
                log[p] = <<>> /\ AllUnchanged

\* A forced claim succeeded on an open bead that was not ready (its blocker
\* is unfinished).
C27_Witness ==
    \E p \in Procs :
       /\ Finished(p, "claim") /\ flag[p] = "force" /\ result[p] = "ok"
       /\ bead[p] \notin ReadyBefore
       /\ pre.tracker[bead[p]] = "open"
       /\ ClaimExists(bead[p]) /\ bead[p] \in worktrees

\* A forced claim of a closed bead was refused.
C27_WitnessClosed ==
    \E p \in Procs :
       /\ Finished(p, "claim") /\ flag[p] = "force" /\ result[p] = "closed"
       /\ pre.tracker[bead[p]] = "closed"

\* An unforced claim of a bead that is not ready was refused.
C27_WitnessNotReady ==
    \E p \in Procs :
       /\ Finished(p, "claim") /\ flag[p] = "noforce" /\ result[p] = "not_ready"
       /\ ~ClaimedBefore(bead[p])

\* C28: a claim row never changes: in every step, every row of the claims
\* table is either still there with the same agent_id, worktree_path,
\* branch_name, start_commit and claimed_at, or its bead has no row any more.
C28_ClaimFieldsFrozen ==
    [][\A r \in claims : r \in claims' \/ ~\E r2 \in claims' : r2.bead_id = r.bead_id]_vars

\* The same seen from a command that has returned: every row that was there
\* when it was invoked is unchanged or deleted.
C28_RowsKeptOrDeleted ==
    \A p \in Procs : \A o \in {"claim", "next", "release", "abort", "resolve"} :
       Finished(p, o) =>
          \A r \in pre.claims : r \in claims \/ ~ClaimExists(r.bead_id)

\* The agent that holds a claim made earlier has claimed the bead again, and
\* the row still carries the time of the first claim.
C28_Witness ==
    \E p \in Procs :
       /\ Finished(p, "claim") /\ result[p] = "already_claimed"
       /\ \E r \in claims :
             /\ r.bead_id = bead[p] /\ r.agent_id = p
             /\ r.claimed_at < now
             /\ r \in pre.claims

\* An abort has returned, a release has failed: the rows made earlier are as
\* they were.
C28_WitnessAbort ==
    \E p \in Procs :
       /\ Finished(p, "abort") /\ result[p] = "ok"
       /\ \E r \in claims : r.bead_id = bead[p] /\ r.claimed_at < now /\ r \in pre.claims

C28_WitnessFailedRelease ==
    \E p \in Procs :
       /\ Finished(p, "release") /\ result[p] \in HardErrors
       /\ \E r \in claims : r.bead_id = bead[p] /\ r.claimed_at < now /\ r \in pre.claims

\* The command of process p was killed while it acted on bead b.
Killed(p, b) ==
    /\ pc[p] = "crashed"
    /\ op[p] \in {"claim", "next", "release", "resolve"}
    /\ bead[p] = b
    /\ b # NoBead

\* A stale command with --cleanup has returned, none of its calls failing for
\* a reason outside the engine, and its threshold had elapsed since the
\* command was killed (at time 0) and since every claim was made.
Reaped(q) ==
    /\ Finished(q, "stale")
    /\ stale[q].cleanup
    /\ result[q] = "ok"
    /\ NoFault(q)
    /\ Cutoff(q) > 0
    /\ \A r \in pre.claims : r.claimed_at < Cutoff(q)

\* C29: after a claim, next, release or resolve was killed between two of
\* its calls and a stale --cleanup has run once the threshold has elapsed,
\* the bead of the killed command has no claim row, no worktree, no branch
\* and tracker status open.
C29_CrashRecovered ==
    \A q, p \in Procs : \A b \in Beads :
       (Reaped(q) /\ Killed(p, b)) => Reclaimed(b)

\* What does hold: the bead is reclaimed when the killed command, none of
\* whose calls had failed, left a claim row for it and the stale command is
\* the first command after it.
C29_RecoveredWithRow ==
    \A q, p \in Procs : \A b \in Beads :
       (Reaped(q) /\ Killed(p, b) /\ NoFault(p) /\ ClaimedBefore(b) /\ invoked = 2)
       => Reclaimed(b)

\* A release killed after its merge was reconciled by the stale cleanup.
C29_WitnessRecovered ==
    \E q, p \in Procs : \E b \in Beads :
       /\ Reaped(q) /\ Killed(p, b) /\ op[p] = "release"
       /\ HasEntry(p, "merge_worktree", "ok")
       /\ b \in pre.wts
       /\ Reclaimed(b)

\* Claim's tracker update failed and the removal of the worktree in its
\* rollback failed as well.
RollbackRemovalFailed(p) ==
    /\ Finished(p, "claim")
    /\ HasEntry(p, "update_bead_status", "fault")
    /\ \E i \in DOMAIN log[p] : log[p][i].call = "remove_worktree" /\ log[p][i].res # "ok"

\* C30: when the worktree removal of claim's rollback fails after a failed
\* tracker update, claim still returns the tracker error, and a worktree left
\* behind still has its claim row, by which stale can find it.
C30_FailedRollbackReconcilable ==
    \A p \in Procs :
       RollbackRemovalFailed(p) =>
          /\ result[p] = "err_tracker"
          /\ bead[p] \in worktrees => ClaimExists(bead[p])

\* The half that holds: the error returned is the tracker's.
C30_ErrorNotMasked ==
    \A p \in Procs : RollbackRemovalFailed(p) => result[p] = "err_tracker"

\* A claim --force of bead b that release(blocked) has left behind: no claim
\* row, the worktree and the branch kept on disk, tracker status blocked.
ReclaimOfBlocked(p) ==
    /\ Finished(p, "claim")
    /\ flag[p] = "force"
    /\ ~ClaimedBefore(bead[p])
    /\ bead[p] \in pre.wts
    /\ bead[p] \in pre.brs
    /\ pre.tracker[bead[p]] = "blocked"
    /\ NoFault(p)

\* C31: after release(blocked) has succeeded, a later claim of the same bead
\* (with --force, the bead being blocked) succeeds and reuses the worktree and
\* the branch kept on disk.
C31_ReclaimAfterBlocked ==
    \A p \in Procs :
       ReclaimOfBlocked(p) =>
          /\ result[p] = "ok"
          /\ ClaimExists(bead[p])
          /\ bead[p] \in worktrees /\ bead[p] \in branches

\* What the code does: the claim stops in create_worktree, which refuses a
\* path that exists, and changes nothing.
C31_ReclaimRefused ==
    \A p \in Procs :
       ReclaimOfBlocked(p) =>
          /\ result[p] = "err_create"
          /\ log[p] = <<E("create_worktree", "-", "fail")>>
          /\ NothingChanged

\* get_ready_beads has returned a list to process p.
Queried(p) == pc[p] = "done" /\ op[p] = "get_ready_beads" /\ result[p] = "ok"

\* The rank the statement of the order gives a priority: P0, P1, P2, P3, then
\* anything else.
StatedRank(pr) ==
    IF pr = "P0" THEN 0 ELSE IF pr = "P1" THEN 1 ELSE IF pr = "P2" THEN 2
    ELSE IF pr = "P3" THEN 3 ELSE 4

\* Bead a is before bead b as identifiers are compared (as text).
IdBefore(a, b) == a = "BEAD-1" /\ b = "BEAD-2"

\* Bead b is open and depends on no blocker whose status is other than done
\* or closed.
StatedReady(b) ==
    /\ tracker[b] = "open"
    /\ \A c \in Beads : <<b, c>> \in deps => tracker[c] \in {"done", "closed"}

\* C32: the list get_ready_beads returns holds exactly the open beads with no
\* dependency on a blocker that is neither done nor closed, each once, ordered
\* by priority (P0, P1, P2, P3, then anything else) and then by identifier;
\* two queries of the same tracker state return the same list.
C32_ReadyList ==
    /\ \A p \in Procs :
          Queried(p) =>
             /\ {ready[p][i] : i \in DOMAIN ready[p]} = {b \in Beads : StatedReady(b)}
             /\ \A i, j \in DOMAIN ready[p] :
                   i < j =>
                      \/ StatedRank(priority[ready[p][i]]) < StatedRank(priority[ready[p][j]])
                      \/ /\ StatedRank(priority[ready[p][i]]) = StatedRank(priority[ready[p][j]])
                         /\ IdBefore(ready[p][i], ready[p][j])
    /\ \A p, q \in Procs : (Queried(p) /\ Queried(q)) => ready[p] = ready[q]

\* Both agents have queried a tracker whose two beads are ready and have the
\* same priority: the identifier decided the order.
C32_Witness ==
    /\ \A p \in Procs : Queried(p) /\ Len(ready[p]) = 2
    /\ priority["BEAD-1"] = priority["BEAD-2"]

\* A bead with a priority the ORDER BY does not name is listed after a P3 bead
\* with the greater identifier.
C32_WitnessOther ==
    \E p \in Procs :
       /\ Queried(p) /\ ready[p] = <<"BEAD-2", "BEAD-1">>
       /\ priority["BEAD-1"] = "P4" /\ priority["BEAD-2"] = "P3"

\* A bead whose blocker is done is listed, one whose blocker is in progress
\* is not.
C32_WitnessBlockers ==
    \E p \in Procs :
       /\ Queried(p) /\ ready[p] = <<"BEAD-1">>
       /\ deps = {<<"BEAD-1", "BEAD-2">>} /\ tracker["BEAD-2"] = "done"

C32_WitnessBlocked ==
    \E p \in Procs :
       /\ Queried(p) /\ ready[p] = <<>>
       /\ tracker["BEAD-1"] = "open" /\ tracker["BEAD-2"] = "in_progress"
       /\ deps = {<<"BEAD-1", "BEAD-2">>}

\* ready[0], which next takes, is the head of every list the query can
\* return.
C32_NextTakesHead ==
    \A q \in ReadyLists : q # <<>> => q[1] = FirstReady

\* C33: whenever a merge of bead b's branch is in progress in the main
\* checkout, b has a claim row, a worktree and a branch.
C33_PendingMergeHasClaim ==
    mergeHead # NoBead =>
       /\ ClaimExists(mergeHead)
       /\ mergeHead \in worktrees
       /\ mergeHead \in branches

\* The part about the claim row alone: the bead of a merge in progress has a
\* claim row.
C33_PendingMergeHasRow == mergeHead # NoBead => ClaimExists(mergeHead)

\* What does hold: when release(done) of a bead that had its worktree returns
\* with the conflict its own merge produced, the merge in progress is its
\* bead's, and the bead's claim row, worktree and branch are there.
C33_ConflictKeepsClaim ==
    \A p \in Procs :
       (/\ Finished(p, "release") /\ HasEntry(p, "merge_worktree", "conflict")
        /\ bead[p] \in pre.wts) =>
          /\ result[p] = "conflict"
          /\ mergeHead = bead[p]
          /\ ClaimExists(bead[p])
          /\ bead[p] \in worktrees /\ bead[p] \in branches

\* C34: closed is terminal. In every step, a bead whose tracker status is
\* closed keeps that status and gets no new claim row.
C34_ClosedIsTerminal ==
    [][\A b \in Beads :
          tracker[b] = "closed" =>
             /\ tracker'[b] = "closed"
             /\ (\E r \in claims' : r.bead_id = b) => ClaimExists(b)]_vars

\* What does hold: a command that runs alone leaves a bead that was closed
\* and had no claim row closed and without a row.
C34_ClosedUnclaimedStays ==
    \A p \in Procs : \A b \in Beads :
       (/\ pc[p] = "done" /\ pre.owner = p
        /\ pre.tracker[b] = "closed" /\ ~ClaimedBefore(b)) =>
          tracker[b] = "closed" /\ ~ClaimExists(b)

\* A command has run alone on a workspace with a closed, unclaimed bead.
C34_WitnessClosedUnclaimed ==
    \E p \in Procs : \E b \in Beads :
       /\ pc[p] = "done" /\ pre.owner = p /\ bead[p] = b
       /\ op[p] = "claim" /\ flag[p] = "force"
       /\ pre.tracker[b] = "closed" /\ ~ClaimedBefore(b)

\* The part about stale: a stale command leaves closed beads closed.
C34_StaleKeepsClosed ==
    \A q \in Procs : \A b \in Beads :
       (Finished(q, "stale") /\ pre.tracker[b] = "closed") => tracker[b] = "closed"

\* release --status done of claimed bead B has returned, having been invoked
\* while the conflicted merge of another bead A was in progress.
ReleasedDuringConflict(p) ==
    /\ Finished(p, "release")
    /\ flag[p] = "done"
    /\ ClaimedBefore(bead[p])
    /\ pre.mh \in Beads \ {bead[p]}
    /\ pre.unres

\* C35: while a merge conflict of bead A is pending in the main checkout,
\* release(done) of another claimed bead B returns success = false and leaves
\* B's claim row, worktree, branch and tracker status as they were and A's
\* merge in progress: B's branch is not merged, A's merge is neither aborted
\* nor committed.
C35_ReleaseDuringConflict ==
    \A p \in Procs :
       ReleasedDuringConflict(p) =>
          /\ result[p] \in {"conflict", "merge_failed"}
          /\ NothingChanged
          /\ mergeHead = pre.mh
          /\ unresolved = pre.unres
          /\ merged = pre.mrg
          /\ log[p] = <<E("merge_worktree", "main", "fail")>>

\* Agent-b's release(done) of BEAD-2 was refused while BEAD-1's merge was in
\* conflict; both beads still have their rows and worktrees.
C35_Witness ==
    \E p \in Procs :
       /\ ReleasedDuringConflict(p)
       /\ mergeHead # NoBead /\ mergeHead # bead[p] /\ unresolved
       /\ \A b \in Beads : ClaimExists(b) /\ b \in worktrees /\ b \in branches
       /\ bead[p] \notin merged

\* C36: stale --cleanup reports a bead in cleaned_up only if the bead was
\* cleaned: when the command has returned, every bead of cleaned_up has no
\* claim row, no worktree, no branch and tracker status open.
C36_CleanedUpOnlyIfClean ==
    \A p \in Procs :
       Finished(p, "stale") =>
          \A i \in DOMAIN stale[p].cleaned_up : Reclaimed(stale[p].cleaned_up[i])

\* The same on the calls: a bead one of whose three calls failed is not in
\* cleaned_up.
C36_FailedNotReported ==
    \A p \in Procs :
       Finished(p, "stale") =>
          \A i \in DOMAIN stale[p].cleaned_up : \A k \in 1..3 : CallRes(p, i, k) = "ok"

\* What the code does: cleaned_up is the listing, whatever the calls returned.
C36_CleanedUpIsListing ==
    \A p \in Procs :
       (Finished(p, "stale") /\ stale[p].cleanup /\ result[p] = "ok") =>
          stale[p].cleaned_up =
             [i \in DOMAIN stale[p].stale_claims |-> stale[p].stale_claims[i].bead_id]

\* A release or resolve that ran alone has called remove_worktree for its
\* bead.
Removed(p) ==
    /\ pc[p] = "done" /\ pre.owner = p
    /\ op[p] \in {"release", "resolve"}
    /\ \E i \in DOMAIN log[p] : log[p][i].call = "remove_worktree"

\* C37: remove_worktree keeps the worktree and the branch together: called
\* for a bead whose worktree directory and branch both exist, it leaves,
\* whatever it returns and forced or not, either both or neither.
C37_RemoveKeepsPair ==
    \A p \in Procs :
       (Removed(p) /\ bead[p] \in pre.wts /\ bead[p] \in pre.brs) =>
          (bead[p] \in worktrees <=> bead[p] \in branches)

\* The same of every outcome remove_worktree has in the current state.
C37_EveryOutcomeKeepsPair ==
    \A b \in Beads : \A force \in BOOLEAN :
       (b \in worktrees /\ b \in branches) =>
          \A o \in remove_worktree(b, force) : (b \in o.st.wts <=> b \in o.st.brs)

\* The part that holds: called for a bead whose directory is absent,
\* remove_worktree returns NotFound and changes nothing.
C37_NotFoundChangesNothing ==
    /\ \A b \in Beads : \A force \in BOOLEAN :
          b \notin worktrees =>
             remove_worktree(b, force) =
                {[res |-> "NotFound", fault |-> FALSE, st |-> Unchanged]}
    /\ \A p \in Procs :
          (Removed(p) /\ bead[p] \notin pre.wts) =>
             /\ \A i \in DOMAIN log[p] :
                   log[p][i].call = "remove_worktree" => log[p][i].res = "fail"
             /\ worktrees = pre.wts /\ branches = pre.brs
             /\ result[p] = "err_remove"

\* remove_worktree returned NotFound to a release(failed) of a bead whose
\* directory was gone and whose branch was left.
C37_WitnessNotFound ==
    \E p \in Procs :
       /\ Removed(p) /\ op[p] = "release" /\ flag[p] = "failed"
       /\ bead[p] \notin pre.wts /\ bead[p] \in pre.brs
       /\ result[p] = "err_remove"

\* release --status done or failed has been run again, alone and with no
\* call failing for an outside reason, on a bead left by a release whose
\* tracker update failed: the claim row is there, the worktree and the branch
\* are gone, the tracker status is still in_progress.
ReleaseRetried(p) ==
    /\ Finished(p, "release")
    /\ flag[p] \in {"done", "failed"}
    /\ ClaimedBefore(bead[p])
    /\ bead[p] \notin pre.wts
    /\ bead[p] \notin pre.brs
    /\ pre.tracker[bead[p]] = "in_progress"
    /\ NoFault(p)

\* C38: release is retryable after a tracker failure: run again once the
\* tracker is available, the same release succeeds, sets the tracker status
\* and deletes the claim row.
C38_ReleaseRetryable ==
    \A p \in Procs :
       ReleaseRetried(p) =>
          /\ result[p] = "ok"
          /\ tracker[bead[p]] = ReleaseStatus(flag[p])
          /\ ~ClaimExists(bead[p])

\* The first half, which holds: a release whose tracker update failed after
\* the worktree was removed returns the tracker's error and keeps the claim
\* row.
C38_RowKeptAfterTrackerFailure ==
    \A p \in Procs :
       (/\ Finished(p, "release")
        /\ HasEntry(p, "remove_worktree", "ok")
        /\ HasEntry(p, "update_bead_status", "fault")) =>
          /\ result[p] = "err_tracker"
          /\ bead[p] \notin worktrees
          /\ \E r \in claims : r.bead_id = bead[p] /\ r \in pre.claims

\* What the retry does: it stops at its first call, which fails because the
\* worktree and the branch are gone, and changes nothing.
C38_RetryFails ==
    \A p \in Procs :
       ReleaseRetried(p) =>
          /\ flag[p] = "done" => result[p] \in {"merge_failed", "conflict"}
          /\ flag[p] = "failed" => result[p] = "err_remove"
          /\ Len(log[p]) = 1 /\ log[p][1].res = "fail"
          /\ NothingChanged

\* ---- C39: the stop-hook check (tools/session.rs)

Checked(p) == Finished(p, "check_session")

C39_WitnessCleared ==
    \E p \in Procs :
       /\ Checked(p)
       /\ pre.session.mode = "orchestrator"
       /\ session = NoSession
       /\ hook[p].decision = "approve"

\* An agent check blocks on an open bead, and one clears the session of a
\* closed bead.
C39_WitnessAgentBlocks ==
    \E p \in Procs :
       /\ Checked(p)
       /\ pre.session.mode = "agent"
       /\ pre.session.bead_id \in Beads
       /\ hook[p].decision = "block"

C39_WitnessAgentCleared ==
    \E p \in Procs :
       /\ Checked(p)
       /\ pre.session.mode = "agent"
       /\ pre.session.bead_id \in Beads
       /\ pre.tracker[pre.session.bead_id] = "closed"
       /\ session = NoSession

\* The check approves with a claim row in the table only after a read failed.
C39_ApproveWithClaimsNeedsFault ==
    \A p \in Procs :
       (Checked(p) /\ pre.session.mode = "orchestrator" /\ pre.claims # {}
          /\ hook[p].decision = "approve") => ~NoFault(p)

\* Without a usable orchestrator or agent session the check approves and the
\* file stays as it is.
C39_NoSessionApproves ==
    \A p \in Procs :
       (Checked(p) /\ pre.session.mode \notin {"orchestrator", "agent"})
          => hook[p].decision = "approve" /\ session = pre.session

\* A negative max_concurrent does not stop the check from blocking.
C39_WitnessNegativeMax ==
    \E p \in Procs :
       /\ Checked(p)
       /\ pre.session.mode = "orchestrator"
       /\ pre.session.max_concurrent < 0
       /\ hook[p].reason = "spawn"

\* ---- C40: owner exclusivity in table tasks (tools/coordination.rs)

\* The owner of the bead's task when the command was invoked (NULL also for
\* a task without a row)
OwnerBefore(p) == pre.tasks.rows[bead[p]].owner

\* C40, claim_task on an unowned or absent task succeeds and makes the caller
\* the owner.
C40_ClaimOfUnownedSucceeds ==
    \A p \in Procs :
       (Finished(p, "claim_task") /\ OwnerBefore(p) = NoOwner /\ NoFault(p))
          => /\ result[p] = "ok"
             /\ tasks.rows[bead[p]].owner = p

\* C40, claim_task by an agent other than the owner returns success = false
\* naming the owner and leaves the row unchanged.
C40_ClaimOfOwnedRefused ==
    \A p \in Procs :
       (Finished(p, "claim_task") /\ OwnerBefore(p) \notin {NoOwner, p} /\ NoFault(p))
          => /\ result[p] = "refused"
             /\ existing[p].owner = OwnerBefore(p)
             /\ tasks = pre.tasks

\* C40, release_task and heartbeat by a non-owner change nothing; the release
\* reports failure and the heartbeat status "error".
C40_NonOwnerChangesNothing ==
    \A p \in Procs :
       /\ (Finished(p, "release_task") /\ OwnerBefore(p) # p)
             => result[p] \in {"refused", "not_found"} /\ tasks = pre.tasks
       /\ (Finished(p, "heartbeat") /\ OwnerBefore(p) # p /\ NoFault(p))
             => result[p] = "hb_error" /\ tasks = pre.tasks

\* C40, a command run alone changes the owner of a task only as a claim of an
\* unowned or own task (of the task or, split, of its parent) or as a release
\* by the owner.
C40_OwnerChangesByClaimOrRelease ==
    \A p \in Procs : \A t \in TaskIds :
       (pc[p] = "done" /\ pre.owner = p
          /\ tasks.rows[t].owner # pre.tasks.rows[t].owner)
          => \/ /\ op[p] = "claim_task"
                /\ t \in {bead[p], Subtask[bead[p]]}
                /\ pre.tasks.rows[t].owner \in {NoOwner, p}
                /\ tasks.rows[t].owner = p
             \/ /\ op[p] = "release_task"
                /\ t = bead[p]
                /\ pre.tasks.rows[t].owner = p
                /\ tasks.rows[t].owner = NoOwner

\* C40: owner exclusivity in the task table, as stated.
C40_OwnerExclusivity ==
    /\ C40_ClaimOfUnownedSucceeds
    /\ C40_ClaimOfOwnedRefused
    /\ C40_NonOwnerChangesNothing
    /\ C40_OwnerChangesByClaimOrRelease

\* With table tasks in the schema, a claim without auto_split of an unowned
\* or absent task succeeds.
C40_PlainClaimSucceedsWithTable ==
    \A p \in Procs :
       (Finished(p, "claim_task") /\ OwnerBefore(p) = NoOwner /\ NoFault(p)
          /\ pre.tasks.table /\ flag[p] # "auto_split")
          => /\ result[p] = "ok"
             /\ tasks.rows[bead[p]].owner = p

\* With table tasks in the schema, a claim with auto_split of an unowned task
\* succeeds.
C40_SplitClaimSucceedsWithTable ==
    \A p \in Procs :
       (Finished(p, "claim_task") /\ OwnerBefore(p) = NoOwner /\ NoFault(p)
          /\ pre.tasks.table)
          => result[p] = "ok"

\* Without table tasks every claim_task and every heartbeat ends in an error
\* and update_workplan too.
C40_NoTableNoClaim ==
    \A p \in Procs :
       (pc[p] = "done" /\ ~tasks.table /\ op[p] \in {"claim_task", "heartbeat", "update_workplan"})
          => result[p] = "err_task"

\* With table tasks in the schema, a heartbeat by a non-owner reports status
\* "error".
C40_NonOwnerHeartbeatWithTable ==
    \A p \in Procs :
       (Finished(p, "heartbeat") /\ OwnerBefore(p) # p /\ NoFault(p) /\ pre.tasks.table)
          => result[p] = "hb_error" /\ tasks = pre.tasks

\* update_workplan leaves every owner as it is.
C40_WorkplanKeepsOwners ==
    \A p \in Procs : \A t \in TaskIds :
       Finished(p, "update_workplan")
          => tasks.rows[t].owner = pre.tasks.rows[t].owner

\* Two claims of one task do not both return success with one of the two
\* claimers not the owner.
C40_NoTwoSuccessfulClaims ==
    \A p, q \in Procs :
       (p # q /\ pc[p] = "done" /\ pc[q] = "done"
          /\ op[p] = "claim_task" /\ op[q] = "claim_task"
          /\ bead[p] = bead[q])
          => ~(result[p] = "ok" /\ result[q] = "ok")

\* A claim by a non-owner is refused, and a release and a heartbeat by a
\* non-owner fail, with the table in the schema.
C40_WitnessRefused ==
    \E p \in Procs :
       /\ Finished(p, "claim_task")
       /\ OwnerBefore(p) \notin {NoOwner, p}
       /\ result[p] = "refused"

C40_WitnessNonOwnerRelease ==
    \E p \in Procs :
       /\ Finished(p, "release_task")
       /\ OwnerBefore(p) \notin {NoOwner, p}
       /\ result[p] = "refused"

C40_WitnessNonOwnerHeartbeat ==
    \E p \in Procs :
       /\ Finished(p, "heartbeat")
       /\ OwnerBefore(p) \notin {NoOwner, p}
       /\ result[p] = "hb_error"

\* A task owned by one agent never passes straight to another agent.
C40_OwnedTaskNotTaken ==
    [][\A t \in TaskIds :
          (tasks.rows[t].owner \in Procs /\ tasks'.rows[t].owner \in Procs)
             => tasks'.rows[t].owner = tasks.rows[t].owner]_vars

====
